---- MODULE Spec2Model ----
(***************************************************************************)
(* A model of qrdrop's request-serving core: the fixed-window rate         *)
(* limiter, the access guard and router of the HTTP server, the download   *)
(* handlers, the upload write-retry loop, the path validator, the range    *)
(* parser, the transfer monitor around the data-moving handlers, the       *)
(* upload of several parts, the catalog and the process's timeout.         *)
(* SpecServer and SpecFiles answer requests without a Range header; Range  *)
(* requests are served in SpecTransfer; the temporary archives of          *)
(* /download-all are in SpecZip, the allow-list entries in SpecAllowList.  *)
(*                                                                         *)
(* Each component has its own specification over the shared variables; a   *)
(* specification holds the variables of the other components still.        *)
(***************************************************************************)
EXTENDS Integers, Sequences, FiniteSets, TLC

(***************************************************************************)
(* Bounds of the model.                                                    *)
(***************************************************************************)
\* the clock runs from 0 to MaxTime
MaxTime == 5
\* the limiter is constructed with maxRequests in 1..MaxLimit
MaxLimit == 2
\* and with windowMs in 1..MaxWindow
MaxWindow == 2

\* at most MaxChecks checks of one key are made inside one window
MaxChecks == 4

\* the server's clock runs from 0 to SrvMaxTime
SrvMaxTime == 2
\* the server is started with --rate-limit unset or in 1..SrvMaxLimit
SrvMaxLimit == 1
\* at most SrvMaxUploads files are written to the output directory
SrvMaxUploads == 1

\* the clock of the temporary archives is advanced at most MaxZipTicks times
MaxZipTicks == 3

\* uploads running at the same time
MaxUploaders == 3
\* tokens in a path handed to validatePath
MaxPathLen == 3
\* files hold 0..MaxFileSize bytes; the numbers of a Range header go one beyond
MaxFileSize == 3
\* a Range header built from the listed specifications has at most MaxRangeParts
MaxRangeParts == 2
\* an upload request has at most MaxBatchParts file parts
MaxBatchParts == 3
\* the server is started with at most MaxRoots paths to share
MaxRoots == 2
\* --timeout is at most MaxTimeout minutes
MaxTimeout == 3
\* at most MaxActive transfers are in flight when the server's timer is due
MaxActive == 2

\* client identifiers (IP strings) seen by the rate limiter
Keys == {"10.0.0.1", "10.0.0.2"}

VARIABLES
  \* ---- rate limiter (rate-limit.ts) ----
  requests,     \* RateLimiter.requests: identifier -> [count, resetTime]
  maxRequests,  \* RateLimiter.maxRequests
  windowMs,     \* RateLimiter.windowMs
  now,          \* Date.now()
  rlLast,       \* the last limiter operation and what it returned
  rlWindow      \* per key: start of the current window and the checks made in it

\* the limiter itself, and what is recorded about its use
limiterVars == <<requests, maxRequests, windowMs, now>>
rlGhostVars == <<rlLast, rlWindow>>

(***************************************************************************)
(* Rate limiter                                                            *)
(***************************************************************************)
\* Map.set(identifier, entry)
MapSet(m, k, v) == [x \in (DOMAIN m) \cup {k} |-> IF x = k THEN v ELSE m[x]]

\* Map.delete over a set of keys
MapDelete(m, ks) == [x \in (DOMAIN m) \ ks |-> m[x]]

EmptyMap == [x \in {} |-> 0]

\* RateLimiter.check with `count > maxRequests`: one request too many is let through
RateLimiterCheck_OffByOne(reqs, identifier, t, maxReq, winMs) ==
  IF identifier \notin DOMAIN reqs \/ t > reqs[identifier].resetTime
    THEN [allowed |-> TRUE,
          requests |-> MapSet(reqs, identifier, [count |-> 1, resetTime |-> t + winMs])]
    ELSE IF reqs[identifier].count > maxReq
      THEN [allowed |-> FALSE, requests |-> reqs]
      ELSE [allowed |-> TRUE,
            requests |-> MapSet(reqs, identifier,
                                [count |-> reqs[identifier].count + 1,
                                 resetTime |-> reqs[identifier].resetTime])]

\* RateLimiter.check that pushes the end of the window on with every allowed request
RateLimiterCheck_Sliding(reqs, identifier, t, maxReq, winMs) ==
  IF identifier \notin DOMAIN reqs \/ t > reqs[identifier].resetTime
    THEN [allowed |-> TRUE,
          requests |-> MapSet(reqs, identifier, [count |-> 1, resetTime |-> t + winMs])]
    ELSE IF reqs[identifier].count >= maxReq
      THEN [allowed |-> FALSE, requests |-> reqs]
      ELSE [allowed |-> TRUE,
            requests |-> MapSet(reqs, identifier,
                                [count |-> reqs[identifier].count + 1,
                                 resetTime |-> t + winMs])]

\* RateLimiter.check(identifier) at time t: the result and the map after it
RateLimiterCheck(reqs, identifier, t, maxReq, winMs) ==
  IF identifier \notin DOMAIN reqs \/ t > reqs[identifier].resetTime
    THEN [allowed |-> TRUE,
          requests |-> MapSet(reqs, identifier, [count |-> 1, resetTime |-> t + winMs])]
    ELSE IF reqs[identifier].count >= maxReq
      THEN [allowed |-> FALSE, requests |-> reqs]
      ELSE [allowed |-> TRUE,
            requests |-> MapSet(reqs, identifier,
                                [count |-> reqs[identifier].count + 1,
                                 resetTime |-> reqs[identifier].resetTime])]

Max(a, b) == IF a >= b THEN a ELSE b

\* RateLimiter.getRemaining(identifier)
GetRemaining(reqs, identifier, t, maxReq) ==
  IF identifier \notin DOMAIN reqs \/ t > reqs[identifier].resetTime
    THEN maxReq
    ELSE Max(0, maxReq - reqs[identifier].count)

\* RateLimiter.getResetTime(identifier)
GetResetTime(reqs, identifier, t) ==
  IF identifier \notin DOMAIN reqs THEN 0
  ELSE Max(0, reqs[identifier].resetTime - t)

\* RateLimiter.cleanup with `now >= entry.resetTime`: an entry goes in the last
\* millisecond of its window
Cleanup_Eager(reqs, t) ==
  MapDelete(reqs, {k \in DOMAIN reqs : t >= reqs[k].resetTime})

\* RateLimiter.cleanup()
Cleanup(reqs, t) ==
  MapDelete(reqs, {k \in DOMAIN reqs : t > reqs[k].resetTime})

NoWindow == [start |-> -1, n |-> 0]

\* The window a check at time t falls in, told from the checks alone: the first
\* check of a key opens a window; a check later than start + windowMs opens the next.
WindowAfterCheck(w, t, winMs) ==
  IF w.start = -1 \/ t > w.start + winMs
    THEN [start |-> t, n |-> 1]
    ELSE [start |-> w.start, n |-> w.n + 1]

RLInit ==
  /\ requests = EmptyMap
  /\ maxRequests \in 1..MaxLimit
  /\ windowMs \in 1..MaxWindow
  /\ now = 0
  /\ rlLast = [op |-> "none"]
  /\ rlWindow = [k \in Keys |-> NoWindow]

RLCheck(k) ==
  LET r == RateLimiterCheck(requests, k, now, maxRequests, windowMs) IN
  /\ WindowAfterCheck(rlWindow[k], now, windowMs).n <= MaxChecks
  /\ requests' = r.requests
  /\ rlLast' = [op |-> "check", key |-> k, allowed |-> r.allowed,
                before |-> requests]
  /\ rlWindow' = [rlWindow EXCEPT ![k] = WindowAfterCheck(@, now, windowMs)]
  /\ UNCHANGED <<maxRequests, windowMs, now>>

RLGetRemaining(k) ==
  /\ rlLast' = [op |-> "getRemaining", key |-> k,
                value |-> GetRemaining(requests, k, now, maxRequests)]
  /\ UNCHANGED <<requests, maxRequests, windowMs, now, rlWindow>>

RLGetResetTime(k) ==
  /\ rlLast' = [op |-> "getResetTime", key |-> k,
                value |-> GetResetTime(requests, k, now)]
  /\ UNCHANGED <<requests, maxRequests, windowMs, now, rlWindow>>

RLCleanup ==
  /\ requests' = Cleanup(requests, now)
  /\ rlLast' = [op |-> "cleanup", before |-> requests]
  /\ UNCHANGED <<maxRequests, windowMs, now, rlWindow>>

\* time passes
Tick ==
  /\ now < MaxTime
  /\ now' = now + 1
  /\ UNCHANGED <<requests, maxRequests, windowMs, rlLast, rlWindow>>


(***************************************************************************)
(* Strings.  A string is a sequence of tokens; a token stands for the run  *)
(* of characters it spells ("/", ".", "files", "%2F", ...), so that         *)
(* startsWith, slice, split and the route patterns act on it as they act   *)
(* on the characters.                                                      *)
(***************************************************************************)
\* String.prototype.startsWith
StartsWith(s, p) == Len(p) <= Len(s) /\ SubSeq(s, 1, Len(p)) = p

\* String.prototype.slice(n)
Slice(s, n) == SubSeq(s, n + 1, Len(s))

\* the lower-case spelling of a token
LowerToken(tok) ==
  CASE tok = "A" -> "a"
    [] tok = "TXT" -> "txt"
    [] tok = "EXE" -> "exe"
    [] OTHER -> tok

\* String.prototype.toLowerCase
ToLowerCase(s) == [i \in 1..Len(s) |-> LowerToken(s[i])]

\* the index of the last token equal to c, 0 when there is none
LastIndexOf(s, c) ==
  IF \E i \in 1..Len(s) : s[i] = c
    THEN CHOOSE i \in 1..Len(s) : s[i] = c /\ \A j \in (i + 1)..Len(s) : s[j] # c
    ELSE 0

\* path.basename
Basename(path) == Slice(path, LastIndexOf(path, "/"))

\* path.join(dir, name)
Join(dir, name) == dir \o <<"/">> \o name

\* what decodeURIComponent makes of one token; "%" alone or before a non-hex
\* character is malformed
DecodeToken(tok) ==
  CASE tok = "%2F" -> "/"
    [] tok = "%2E" -> "."
    [] tok = "%25" -> "%"
    [] tok = "%252F" -> "%2F"
    [] tok = "%25zz" -> "%zz"
    [] OTHER -> tok

\* a token decodeURIComponent throws URIError on
Malformed(tok) == tok \in {"%", "%zz"}

\* decodeURIComponent(value): the decoded string, or a throw
DecodeURIComponent(value) ==
  IF \E i \in 1..Len(value) : Malformed(value[i])
    THEN [threw |-> TRUE, value |-> <<>>]
    ELSE [threw |-> FALSE, value |-> [i \in 1..Len(value) |-> DecodeToken(value[i])]]

(***************************************************************************)
(* The filesystem seen by the server: every path is absent, a regular      *)
(* file, a directory or a symbolic link to a regular file outside the      *)
(* shared paths.                                                           *)
(***************************************************************************)
ShareDir == <<"/", "srv">>
NameA == <<"a", ".", "txt">>
NameB == <<"b", ".", "exe">>
NameL == <<"l", ".", "txt">>
FileA == Join(ShareDir, NameA)
FileB == Join(ShareDir, NameB)
\* a share root that is a single file
FileL == <<"/", "home", "/", "l", ".", "txt">>
\* a file of the disk that is under no share root
FileOutside == <<"/", "etc", "/", "o", ".", "txt">>

\* options.file as given on the command line
FilePaths == <<ShareDir, FileL>>

\* the entries readdir returns for the shared directory, in its order
DirEntries == <<NameA, NameB>>

\* the paths whose kind changes while the server runs
MutablePaths == {FileA, FileL}

\* the byte contents: a regular file holds its own, a link leads to the target's
OwnContent(path) ==
  CASE path = FileA -> "bytes-a"
    [] path = FileB -> "bytes-b"
    [] path = FileL -> "bytes-l"
    [] OTHER -> "none"

LinkTargetContent == "bytes-of-link-target"

VARIABLES
  \* ---- the HTTP server (server.ts) ----
  fs,            \* path -> "file" | "symlink" | "dir" | "absent"
  customPath,    \* networkInfo.path
  allowIps,      \* options.allowIps
  rateLimit,     \* options.rateLimit, or Undefined (no limiter)
  allowedTypes,  \* options.allowedTypes
  validFilePaths,\* validateFilePaths(filePaths)
  fileMap,       \* buildFileMap(validFilePaths): sequence of [name, path], in insertion order
  outputFiles,   \* the names present in the output directory
  running,       \* "up", "stopping" (POST /stop answered, timer pending) or "down"
  resp           \* the last request, the response fetchHandler gave it, and the
                 \* limiter's map, the clock and the filesystem it was handled with

srvVars == <<fs, customPath, allowIps, rateLimit, allowedTypes, validFilePaths,
             fileMap, outputFiles, running, resp>>

VARIABLES
  \* ---- concurrent uploads (upload.ts) ----
  disk,          \* the output directory: name -> [owner, complete]
  uploads,       \* per upload: where processSingleFile stands, and its locals
  \* ---- validatePath (security.ts) ----
  vp,            \* one call of validatePath: its arguments and its outcome
  \* ---- parseRangeHeader (security.ts) ----
  rg,            \* one call of parseRangeHeader: its arguments and its outcome
  \* ---- transfers (server.ts handlers, monitor.ts) ----
  stats,         \* transferMonitor.stats
  sizes,         \* stat(path).size of the shared files
  handlers,      \* per handler call: its request, where it stands, its response
  \* ---- handleUpload (upload.ts) ----
  batch,         \* one call of handleUpload: its file parts and its outcome
  \* ---- the catalog (server.ts buildFileMap, files.ts getFiles) ----
  cat,           \* one server start: the shared paths, the listing, the downloads
  \* ---- the process (index.ts main) ----
  ipc,           \* one call of isIPAllowed: the client, the entry, the answer
  zip,           \* the temporary archives of /download-all
  dl,            \* one listing or download on a disk that changed since startup
  cfg,           \* one call of mergeConfig: the three sources and the merged options
  life           \* the options, the clock, the timeout timer, the server's state,
                 \* when and why it stopped, the transfers in flight

uploadVars == <<disk, uploads>>

vpVars == <<vp>>

rgVars == <<rg>>

xferVars == <<stats, sizes, handlers>>

batchVars == <<batch>>

catVars == <<cat>>

lifeVars == <<life>>

cfgVars == <<cfg>>

dlVars == <<dl>>

zipVars == <<zip>>

ipVars == <<ipc>>

vars == <<limiterVars, rlGhostVars, srvVars, uploadVars, vpVars, rgVars, xferVars,
          batchVars, catVars, lifeVars, ipVars,
          zipVars,
          dlVars,
          cfgVars>>

\* fs.exists / stat succeed: links are followed, and every link leads to a file
Exists(f, path) == path \in DOMAIN f /\ f[path] # "absent"

\* stat(path).isFile(): a link to a regular file is a file to stat
StatIsFile(f, path) == Exists(f, path) /\ f[path] \in {"file", "symlink"}

StatIsDirectory(f, path) == Exists(f, path) /\ f[path] = "dir"

\* what reading the path yields
ReadFile(f, path) == IF f[path] = "symlink" THEN LinkTargetContent ELSE OwnContent(path)

\* isSymlink(filePath): lstat, caught errors count as "not a symlink"
IsSymlink(f, path) == path \in DOMAIN f /\ f[path] = "symlink"

\* isFileTypeAllowed(filename, allowedTypes)
IsFileTypeAllowed(filename, types) ==
  IF Len(types) = 0 THEN TRUE
  ELSE LET ext == ToLowerCase(Slice(filename, LastIndexOf(filename, ".")))
           normalizedExt == IF StartsWith(ext, <<".">>) THEN ext ELSE <<".">> \o ext
           NormalizedType(type) == IF StartsWith(type, <<".">>) THEN type ELSE <<".">> \o type
       IN \E i \in 1..Len(types) : ToLowerCase(NormalizedType(types[i])) = normalizedExt

\* isIPAllowed(clientIP, allowedIPs) for lists of plain addresses (exact match)
IsIPAllowed(clientIP, allowedIPs) ==
  IF Len(allowedIPs) = 0 THEN TRUE
  ELSE \E i \in 1..Len(allowedIPs) : allowedIPs[i] = clientIP

\* Array.prototype.filter
RECURSIVE SelectNames(_, _)
SelectNames(names, types) ==
  IF names = <<>> THEN <<>>
  ELSE IF IsFileTypeAllowed(Head(names), types)
    THEN <<Head(names)>> \o SelectNames(Tail(names), types)
    ELSE SelectNames(Tail(names), types)

\* listFiles(baseDirectory): the regular files of the directory, links skipped.
\* (DirEntries is already in localeCompare order.)
RECURSIVE ListFilesFrom(_, _, _)
ListFilesFrom(f, dir, entries) ==
  IF entries = <<>> THEN <<>>
  ELSE LET p == Join(dir, Head(entries)) IN
       IF p \in DOMAIN f /\ f[p] = "file" /\ ~IsSymlink(f, p)
         THEN <<Head(entries)>> \o ListFilesFrom(f, dir, Tail(entries))
         ELSE ListFilesFrom(f, dir, Tail(entries))

ListFiles(f, dir) == IF StatIsDirectory(f, dir) THEN ListFilesFrom(f, dir, DirEntries) ELSE <<>>

\* getFiles(filePaths) before the type filter: the names, in order
RECURSIVE GetAllFiles(_, _)
GetAllFiles(f, paths) ==
  IF paths = <<>> THEN <<>>
  ELSE LET p == Head(paths)
           rest == GetAllFiles(f, Tail(paths))
       IN IF ~Exists(f, p) THEN rest
          ELSE IF StatIsFile(f, p)
            THEN (IF IsSymlink(f, p) THEN rest ELSE <<Basename(p)>> \o rest)
          ELSE IF StatIsDirectory(f, p) THEN ListFiles(f, p) \o rest
          ELSE rest

\* getFiles(filePaths, allowedTypes)
GetFiles(f, paths, types) ==
  IF Len(types) > 0 THEN SelectNames(GetAllFiles(f, paths), types)
  ELSE GetAllFiles(f, paths)

\* validateFilePaths(filePaths)
RECURSIVE ValidateFilePaths(_, _)
ValidateFilePaths(f, paths) ==
  IF paths = <<>> THEN <<>>
  ELSE IF Exists(f, Head(paths))
    THEN <<Head(paths)>> \o ValidateFilePaths(f, Tail(paths))
    ELSE ValidateFilePaths(f, Tail(paths))

\* Map.has on the insertion-ordered map
MapHas(m, name) == \E i \in 1..Len(m) : m[i].name = name

\* Map.get: the path, or <<>> for undefined
MapGet(m, name) ==
  IF MapHas(m, name) THEN m[CHOOSE i \in 1..Len(m) : m[i].name = name].path ELSE <<>>

\* the inner loop of buildFileMap over a directory's files
RECURSIVE AddDirFiles(_, _, _)
AddDirFiles(m, dir, names) ==
  IF names = <<>> THEN m
  ELSE AddDirFiles(IF MapHas(m, Head(names)) THEN m
                   ELSE Append(m, [name |-> Head(names), path |-> Join(dir, Head(names))]),
                   dir, Tail(names))

\* buildFileMap(validFilePaths), continued from the map m
RECURSIVE BuildFileMapFrom(_, _, _)
BuildFileMapFrom(f, m, paths) ==
  IF paths = <<>> THEN m
  ELSE LET p == Head(paths) IN
       BuildFileMapFrom(f,
         IF ~Exists(f, p) THEN m
         ELSE IF StatIsFile(f, p)
           THEN (IF MapHas(m, Basename(p)) THEN m
                 ELSE Append(m, [name |-> Basename(p), path |-> p]))
         ELSE IF StatIsDirectory(f, p) THEN AddDirFiles(m, p, GetFiles(f, <<p>>, <<>>))
         ELSE m,
         Tail(paths))

BuildFileMap(f, paths) == BuildFileMapFrom(f, <<>>, paths)


(***************************************************************************)
(* Upload naming (upload.ts)                                               *)
(***************************************************************************)
\* the characters sanitizeFilename replaces by "_"
Dangerous(tok) == tok \in {"<", ">", ":", "|", "?", "*"}

\* sanitizeFilename(filename)
SanitizeFilename(filename) ==
  Basename([i \in 1..Len(filename) |-> IF Dangerous(filename[i]) THEN "_" ELSE filename[i]])

\* extractFileExtension(filename): a leading dot starts no extension
ExtractFileExtension(filename) ==
  LET lastDotIndex == LastIndexOf(filename, ".") IN
  IF lastDotIndex > 1
    THEN [ext |-> Slice(filename, lastDotIndex), baseName |-> SubSeq(filename, 1, lastDotIndex - 1)]
    ELSE [ext |-> <<>>, baseName |-> filename]

\* `${baseName}_${counter}.${ext}`, or `${baseName}_${counter}` without extension
NewName(baseName, ext, counter) ==
  IF ext # <<>> THEN baseName \o <<"_", ToString(counter)>> \o <<".">> \o ext
  ELSE baseName \o <<"_", ToString(counter)>>

\* findUniqueFilePath over the names present in the output directory: the name
\* tried after `counter - 1` renames, searching on while it exists
RECURSIVE FindUniqueFrom(_, _, _, _, _)
FindUniqueFrom(present, name, baseName, ext, counter) ==
  IF name \in present
    THEN FindUniqueFrom(present, NewName(baseName, ext, counter), baseName, ext, counter + 1)
    ELSE name

FindUniqueFilePath(present, filename, ext, baseName) ==
  FindUniqueFrom(present, filename, baseName, ext, 1)

(***************************************************************************)
(* Route handlers (server.ts, createRouteHandlers)                         *)
(***************************************************************************)
NoBody == [kind |-> "none", names |-> <<>>, path |-> <<>>, content |-> "none",
           entries |-> {}, success |-> FALSE]

TextBody == [NoBody EXCEPT !.kind = "text"]

\* handleFilesListRequest
HandleFilesListRequest(f, vfp, types) ==
  [status |-> 200,
   body |-> [NoBody EXCEPT !.kind = "json-files", !.names = GetFiles(f, vfp, types)]]

\* handleFileDownloadRequest: the file-type check (lines 219-226)
DownloadTypeDenied(filename, types) ==
  Len(types) > 0 /\ ~IsFileTypeAllowed(filename, types)

\* the case-insensitive pass over fileMap.entries(): the first matching entry's index, or 0
CaseInsensitiveIndex(fm, filename) ==
  IF \E i \in 1..Len(fm) : ToLowerCase(fm[i].name) = ToLowerCase(filename)
    THEN CHOOSE i \in 1..Len(fm) :
           /\ ToLowerCase(fm[i].name) = ToLowerCase(filename)
           /\ \A j \in 1..(i - 1) : ToLowerCase(fm[j].name) # ToLowerCase(filename)
    ELSE 0

\* a candidate of the validFilePaths pass: base name equal (or equal ignoring case)
\* and stat says it is a file
FallbackCandidate(f, vfp, filename, i) ==
  /\ \/ Basename(vfp[i]) = filename
     \/ ToLowerCase(Basename(vfp[i])) = ToLowerCase(filename)
  /\ StatIsFile(f, vfp[i])

FallbackIndex(f, vfp, filename) ==
  IF \E i \in 1..Len(vfp) : FallbackCandidate(f, vfp, filename, i)
    THEN CHOOSE i \in 1..Len(vfp) :
           /\ FallbackCandidate(f, vfp, filename, i)
           /\ \A j \in 1..(i - 1) : ~FallbackCandidate(f, vfp, filename, j)
    ELSE 0

\* a resolution that, when nothing matches, takes the name itself for a path
ResolveFilePath_DirectPath(f, fm, vfp, filename) ==
  IF MapGet(fm, filename) # <<>> THEN MapGet(fm, filename)
  ELSE IF CaseInsensitiveIndex(fm, filename) # 0 THEN fm[CaseInsensitiveIndex(fm, filename)].path
  ELSE IF FallbackIndex(f, vfp, filename) # 0 THEN vfp[FallbackIndex(f, vfp, filename)]
  ELSE IF Exists(f, filename) THEN filename
  ELSE <<>>

\* the name resolution of handleFileDownloadRequest (lines 228-272): the path, or <<>>
ResolveFilePath(f, fm, vfp, filename) ==
  IF MapGet(fm, filename) # <<>> THEN MapGet(fm, filename)
  ELSE IF CaseInsensitiveIndex(fm, filename) # 0 THEN fm[CaseInsensitiveIndex(fm, filename)].path
  ELSE IF FallbackIndex(f, vfp, filename) # 0 THEN vfp[FallbackIndex(f, vfp, filename)]
  ELSE <<>>

\* handleFileDownloadRequest for a request without a Range header (with one:
\* ServeFile)
HandleFileDownloadRequest(f, fm, vfp, types, filename) ==
  IF DownloadTypeDenied(filename, types)
    THEN [status |-> 403, body |-> TextBody]
  ELSE LET filePath == ResolveFilePath(f, fm, vfp, filename) IN
    IF filePath = <<>> THEN [status |-> 404, body |-> TextBody]
    ELSE IF ~Exists(f, filePath) THEN [status |-> 404, body |-> TextBody]
    ELSE IF ~StatIsFile(f, filePath) THEN [status |-> 404, body |-> TextBody]
    ELSE [status |-> 200,
          body |-> [NoBody EXCEPT !.kind = "file", !.path = filePath,
                                  !.content = ReadFile(f, filePath)]]

\* zipFiles(filePaths): the archive holds every path stat can reach, under its base name
ZipEntries(f, paths) ==
  {[name |-> Basename(paths[i]), path |-> paths[i], content |-> ReadFile(f, paths[i])] :
     i \in {j \in 1..Len(paths) : StatIsFile(f, paths[j])}}

\* handleDownloadAllRequest: Array.from(fileMap.values()) goes to zipFiles
HandleDownloadAllRequest(f, fm) ==
  LET allFilePaths == [i \in 1..Len(fm) |-> fm[i].path] IN
  IF Len(allFilePaths) = 0
    THEN [status |-> 404, body |-> [NoBody EXCEPT !.kind = "json-error"]]
    ELSE [status |-> 200,
          body |-> [NoBody EXCEPT !.kind = "zip", !.entries = ZipEntries(f, allFilePaths)]]

\* handleUploadRequest's type check: some part's name is not allowed
UploadTypeDenied(parts, types) ==
  Len(types) > 0 /\ \E i \in 1..Len(parts) : ~IsFileTypeAllowed(parts[i], types)

\* processSingleFile run to its end with no other writer in between: the final name
ProcessSingleFile(present, partName) ==
  LET filename == SanitizeFilename(partName)
      e == ExtractFileExtension(filename)
  IN FindUniqueFilePath(present, filename, e.ext, e.baseName)


\* handleUpload over the parts in order, no other writer in between: the names
\* written, and the directory after them
RECURSIVE UploadParts(_, _, _)
UploadParts(present, parts, written) ==
  IF parts = <<>> THEN [present |-> present, names |-> written]
  ELSE LET final == ProcessSingleFile(present, Head(parts)) IN
       UploadParts(present \cup {final}, Tail(parts), Append(written, final))

\* handleUploadRequest: the response and the output directory after it
HandleUploadRequest(present, parts, types) ==
  IF UploadTypeDenied(parts, types)
    THEN [status |-> 403, body |-> [NoBody EXCEPT !.kind = "json-upload"], present |-> present]
  ELSE IF Len(parts) = 0
    THEN [status |-> 200, body |-> [NoBody EXCEPT !.kind = "json-upload"], present |-> present]
  ELSE LET u == UploadParts(present, parts, <<>>) IN
       [status |-> 200,
        body |-> [NoBody EXCEPT !.kind = "json-upload", !.success = TRUE, !.names = u.names],
        present |-> u.present]

(***************************************************************************)
(* Router (router.ts)                                                      *)
(***************************************************************************)
RootPath == <<"/">>

\* the routes createServer registers, in registration order; a route with a
\* parameter matches its literal part followed by ([^/]+)
Routes ==
  << [method |-> "GET", literal |-> <<"/">>, param |-> FALSE, handler |-> "handleRootRequest"],
     [method |-> "GET", literal |-> <<"/", "files">>, param |-> FALSE,
      handler |-> "handleFilesListRequest"],
     [method |-> "GET", literal |-> <<"/", "files", "/">>, param |-> TRUE,
      handler |-> "handleFileDownloadRequest"],
     [method |-> "GET", literal |-> <<"/", "download-all">>, param |-> FALSE,
      handler |-> "handleDownloadAllRequest"],
     [method |-> "POST", literal |-> <<"/", "upload">>, param |-> FALSE,
      handler |-> "handleUploadRequest"],
     [method |-> "POST", literal |-> <<"/", "stop">>, param |-> FALSE,
      handler |-> "handleStopRequest"],
     [method |-> "OPTIONS", literal |-> <<"/">>, param |-> FALSE,
      handler |-> "handleOptionsRequest"],
     [method |-> "OPTIONS", literal |-> <<"/", "files">>, param |-> FALSE,
      handler |-> "handleOptionsRequest"],
     [method |-> "OPTIONS", literal |-> <<"/", "files", "/">>, param |-> TRUE,
      handler |-> "handleOptionsRequest"],
     [method |-> "OPTIONS", literal |-> <<"/", "download-all">>, param |-> FALSE,
      handler |-> "handleOptionsRequest"],
     [method |-> "OPTIONS", literal |-> <<"/", "upload">>, param |-> FALSE,
      handler |-> "handleOptionsRequest"] >>

\* pathname.match(route.pattern)
RouteMatches(route, pathname) ==
  IF route.param
    THEN /\ StartsWith(pathname, route.literal)
         /\ Len(pathname) > Len(route.literal)
         /\ \A i \in (Len(route.literal) + 1)..Len(pathname) : pathname[i] # "/"
    ELSE pathname = route.literal

\* Router.handle, lines 110-113: strip the path prefix if present
StripPrefix(pathname, pathPrefix) ==
  IF pathPrefix # RootPath /\ StartsWith(pathname, pathPrefix)
    THEN (IF Slice(pathname, Len(pathPrefix)) = <<>> THEN RootPath
          ELSE Slice(pathname, Len(pathPrefix)))
    ELSE pathname

\* the index of the first route of the method that matches, 0 when none does
FindRoute(method, pathname) ==
  IF \E i \in 1..Len(Routes) : Routes[i].method = method /\ RouteMatches(Routes[i], pathname)
    THEN CHOOSE i \in 1..Len(Routes) :
           /\ Routes[i].method = method /\ RouteMatches(Routes[i], pathname)
           /\ \A j \in 1..(i - 1) :
                ~(Routes[j].method = method /\ RouteMatches(Routes[j], pathname))
    ELSE 0


(***************************************************************************)
(* Access guard and fetch handler (server.ts)                              *)
(***************************************************************************)
\* options.rateLimit is undefined: createServer builds no limiter
Undefined == -1

\* checkRequestAccess with the two checks swapped: the limiter counts the request
\* before the allow-list is looked at
CheckRequestAccess_LimiterFirst(clientIP, reqs, t) ==
  LET r == RateLimiterCheck(reqs, clientIP, t, maxRequests, windowMs) IN
  IF rateLimit # Undefined /\ ~r.allowed
    THEN [allowed |-> FALSE, status |-> 429, guard |-> "denied-rate", requests |-> r.requests]
  ELSE IF Len(allowIps) > 0 /\ ~IsIPAllowed(clientIP, allowIps)
    THEN [allowed |-> FALSE, status |-> 403, guard |-> "denied-ip",
          requests |-> IF rateLimit # Undefined THEN r.requests ELSE reqs]
  ELSE [allowed |-> TRUE, status |-> 0, guard |-> "allowed",
        requests |-> IF rateLimit # Undefined THEN r.requests ELSE reqs]

\* checkRequestAccess(request, headers, server): the decision and the limiter's map after it
CheckRequestAccess(clientIP, reqs, t) ==
  IF Len(allowIps) > 0 /\ ~IsIPAllowed(clientIP, allowIps)
    THEN [allowed |-> FALSE, status |-> 403, guard |-> "denied-ip", requests |-> reqs]
  ELSE IF rateLimit # Undefined
    THEN LET r == RateLimiterCheck(reqs, clientIP, t, maxRequests, windowMs) IN
         IF ~r.allowed
           THEN [allowed |-> FALSE, status |-> 429, guard |-> "denied-rate",
                 requests |-> r.requests]
           ELSE [allowed |-> TRUE, status |-> 0, guard |-> "allowed", requests |-> r.requests]
  ELSE [allowed |-> TRUE, status |-> 0, guard |-> "allowed", requests |-> reqs]

\* what a request leaves behind besides its response
Effects(reqs, present, run) == [requests |-> reqs, outputFiles |-> present, running |-> run]

\* a response: status, whether it carries the CORS headers of createCorsHeaders, the
\* route handler that produced it, what the access guard did, and the body
Response(status, cors, handler, guard, body, threw) ==
  [status |-> status, cors |-> cors, handler |-> handler, guard |-> guard,
   body |-> body, threw |-> threw]

\* Router.handle(request, baseHeaders, pathPrefix) once the access guard has passed
RouterHandle(req, reqs) ==
  LET pathname == StripPrefix(req.path, customPath)
      idx == FindRoute(req.method, pathname)
      same == Effects(reqs, outputFiles, running)
  IN
  IF idx = 0
    THEN [resp |-> Response(404, TRUE, "notFoundHandler", "allowed", TextBody, FALSE),
          eff |-> same]
  ELSE LET route == Routes[idx]
           value == IF route.param THEN Slice(pathname, Len(route.literal)) ELSE <<>>
           decoded == DecodeURIComponent(value)
       IN
    IF decoded.threw
      THEN \* the promise of handle rejects: the server answers with its own error page
           [resp |-> Response(500, FALSE, "none", "allowed", NoBody, TRUE), eff |-> same]
    ELSE IF route.handler = "handleRootRequest"
      THEN [resp |-> Response(200, TRUE, route.handler, "allowed",
                              [NoBody EXCEPT !.kind = "html"], FALSE),
            eff |-> same]
    ELSE IF route.handler = "handleFilesListRequest"
      THEN LET h == HandleFilesListRequest(fs, validFilePaths, allowedTypes) IN
           [resp |-> Response(h.status, TRUE, route.handler, "allowed", h.body, FALSE),
            eff |-> same]
    ELSE IF route.handler = "handleFileDownloadRequest"
      THEN LET h == HandleFileDownloadRequest(fs, fileMap, validFilePaths, allowedTypes,
                                              decoded.value) IN
           [resp |-> Response(h.status, TRUE, route.handler, "allowed", h.body, FALSE),
            eff |-> same]
    ELSE IF route.handler = "handleDownloadAllRequest"
      THEN LET h == HandleDownloadAllRequest(fs, fileMap) IN
           [resp |-> Response(h.status, TRUE, route.handler, "allowed", h.body, FALSE),
            eff |-> same]
    ELSE IF route.handler = "handleUploadRequest"
      THEN LET h == HandleUploadRequest(outputFiles, req.parts, allowedTypes) IN
           [resp |-> Response(h.status, TRUE, route.handler, "allowed", h.body, FALSE),
            eff |-> Effects(reqs, h.present, running)]
    ELSE IF route.handler = "handleStopRequest"
      THEN [resp |-> Response(200, TRUE, route.handler, "allowed",
                              [NoBody EXCEPT !.kind = "json-stop", !.success = TRUE], FALSE),
            eff |-> Effects(reqs, outputFiles, "stopping")]
    ELSE [resp |-> Response(204, TRUE, route.handler, "allowed", NoBody, FALSE), eff |-> same]

\* fetchHandler(req, server): the response and what the request leaves behind
FetchHandler(req) ==
  LET same == Effects(requests, outputFiles, running) IN
  IF customPath # RootPath /\ req.path = customPath
    THEN \* Response.redirect(customPath + "/", 301): a response of its own, no headers passed
         [resp |-> Response(301, FALSE, "none", "not-run", NoBody, FALSE), eff |-> same]
  ELSE IF req.method = "OPTIONS"
    THEN [resp |-> Response(204, TRUE, "none", "not-run", NoBody, FALSE), eff |-> same]
  ELSE LET accessCheck == CheckRequestAccess(req.ip, requests, now) IN
    IF ~accessCheck.allowed
      THEN [resp |-> Response(accessCheck.status, TRUE, "none", accessCheck.guard,
                              TextBody, FALSE),
            eff |-> Effects(accessCheck.requests, outputFiles, running)]
      ELSE RouterHandle(req, accessCheck.requests)


(***************************************************************************)
(* The requests sent to the server                                         *)
(***************************************************************************)
\* the configured URL prefix when there is one (16 random characters in the default
\* configuration, one token here)
PrefixPath == <<"/", "secret">>

NameAUpper == <<"A", ".", "TXT">>

DownloadNames == {NameA, NameAUpper, NameB, NameL, <<"%zz">>}

\* request paths relative to the prefix, with downloads of the names given
GetPaths(names) ==
  {<<"/">>, <<"/", "files">>, <<"/", "download-all">>, <<"/", "nope">>}
    \cup {<<"/", "files", "/">> \o n : n \in names}

\* the file parts of an upload's form data, by name
PartLists == {<<>>, <<NameA>>, <<NameB>>}

\* a client addresses the server below its prefix, or leaves the prefix out
Bases == {<<>>} \cup (IF customPath = RootPath THEN {} ELSE {customPath})

Request(method, path, ip, parts) ==
  [method |-> method, path |-> path, ip |-> ip, parts |-> parts]

\* the requests of the clients `ips` for the files `names`, with uploads carrying
\* the part lists `partLists`
RequestsOf(ips, names, partLists) ==
  UNION {
    {Request("GET", b \o p, ip, <<>>) : b \in Bases, p \in GetPaths(names), ip \in ips},
    {Request("GET", p, ip, <<>>) :
       p \in {PrefixPath, PrefixPath \o <<"X", "/", "files">>}, ip \in ips},
    {Request("POST", b \o <<"/", "upload">>, ip, parts) :
       b \in Bases, parts \in partLists, ip \in ips},
    {Request("POST", PrefixPath, ip, <<>>) : ip \in ips},
    {Request("OPTIONS", b \o p, ip, <<>>) :
       b \in Bases, p \in {<<"/">>, <<"/", "files">>, <<"/", "nope">>}, ip \in ips},
    {Request("OPTIONS", PrefixPath, ip, <<>>) : ip \in ips}
  }

\* POST /stop
StopRequests(ips) ==
  {Request("POST", b \o <<"/", "stop">>, ip, <<>>) : b \in Bases, ip \in ips}

\* every client, uploads without a file part: the access guard and the router at work
AccessRequests == RequestsOf(Keys, {NameA, <<"%zz">>}, {<<>>})

\* one client, uploads with file parts, the server stopped from the UI: the handlers
\* at work on the files
\* encoded names that decode to a path: "../a.txt" and "/etc/o.txt"
TraversalNames ==
  { <<"%2E", "%2E", "%2F", "a", ".", "txt">>, <<"%2F", "etc", "%2F", "o", ".", "txt">> }

FileRequests ==
  RequestsOf({"10.0.0.1"}, DownloadNames, PartLists) \cup StopRequests({"10.0.0.1"})

NoRequest == Request("none", <<>>, "none", <<>>)

NoResponse == Response(0, FALSE, "none", "not-run", NoBody, FALSE)

\* no request handled yet
NoExchange ==
  [req |-> NoRequest, resp |-> NoResponse, before |-> EmptyMap, after |-> EmptyMap,
   at |-> 0, fs |-> EmptyMap]

(***************************************************************************)
(* The server                                                              *)
(***************************************************************************)
\* the filesystems the server may be started on: the single-file share root is a
\* regular file or a link
InitialFs ==
  {[p \in {ShareDir, FileA, FileB, FileL} |->
      IF p = ShareDir THEN "dir" ELSE IF p = FileL THEN l ELSE "file"] :
     l \in {"file", "symlink"}}

\* createServer(config) on one of the filesystems and configurations given
SrvInitWith(fileSystems, prefixes, allowLists, rateLimits, typeLists) ==
  /\ fs \in fileSystems
  /\ customPath \in prefixes
  /\ allowIps \in allowLists
  /\ rateLimit \in rateLimits
  /\ allowedTypes \in typeLists
  /\ validFilePaths = ValidateFilePaths(fs, FilePaths)
  /\ fileMap = BuildFileMap(fs, validFilePaths)
  /\ outputFiles = {}
  /\ running = "up"
  /\ resp = NoExchange
  \* createRateLimiter(options.rateLimit, (options.rateLimitWindow || 60) * 1000)
  /\ requests = EmptyMap
  /\ maxRequests = (IF rateLimit = Undefined THEN 0 ELSE rateLimit)
  /\ windowMs = 1
  /\ now = 0

\* every access configuration, on a filesystem of regular files
AccessInit ==
  SrvInitWith({f \in InitialFs : f[FileL] = "file"}, {RootPath, PrefixPath},
              {<<>>, <<"10.0.0.1">>}, {Undefined} \cup (1..SrvMaxLimit), {<<>>})

\* every file configuration, open to every client
FilesInit ==
  SrvInitWith(InitialFs, {RootPath}, {<<>>}, {Undefined}, {<<>>, << <<"txt">> >>})

\* the server answers one request
Fetch(req) ==
  /\ running # "down"
  /\ Cardinality(outputFiles) + Len(req.parts) <= SrvMaxUploads
  /\ LET r == FetchHandler(req) IN
     /\ resp' = [req |-> req, resp |-> r.resp, before |-> requests,
                 after |-> r.eff.requests, at |-> now, fs |-> fs]
     /\ requests' = r.eff.requests
     /\ outputFiles' = r.eff.outputFiles
     /\ running' = r.eff.running
  /\ UNCHANGED <<fs, customPath, allowIps, rateLimit, allowedTypes, validFilePaths,
                 fileMap, maxRequests, windowMs, now>>

\* the timer of handleStopRequest fires: serverInstance.stop() and process.exit(0)
StopTimer ==
  /\ running = "stopping"
  /\ running' = "down"
  /\ UNCHANGED <<fs, customPath, allowIps, rateLimit, allowedTypes, validFilePaths,
                 fileMap, outputFiles, resp, requests, maxRequests, windowMs, now>>

\* setInterval(() => limiter.cleanup(), 60000)
SrvCleanup ==
  /\ running # "down"
  /\ rateLimit # Undefined
  /\ requests' = Cleanup(requests, now)
  /\ UNCHANGED <<fs, customPath, allowIps, rateLimit, allowedTypes, validFilePaths,
                 fileMap, outputFiles, running, resp, maxRequests, windowMs, now>>

SrvTick ==
  /\ now < SrvMaxTime
  /\ now' = now + 1
  /\ UNCHANGED <<fs, customPath, allowIps, rateLimit, allowedTypes, validFilePaths,
                 fileMap, outputFiles, running, resp, requests, maxRequests, windowMs>>

\* somebody outside the server replaces a shared file by a link, a link by a file,
\* or removes it
FsChange(p, kind) ==
  /\ fs[p] # kind
  /\ fs' = [fs EXCEPT ![p] = kind]
  /\ UNCHANGED <<customPath, allowIps, rateLimit, allowedTypes, validFilePaths,
                 fileMap, outputFiles, running, resp, requests, maxRequests, windowMs, now>>

(***************************************************************************)
(* Concurrent uploads (upload.ts): each upload runs processSingleFile, and *)
(* the uploads interleave at every filesystem call.                        *)
(***************************************************************************)
\* MAX_UPLOAD_ATTEMPTS
MAX_UPLOAD_ATTEMPTS == 100

Uploaders == 1..MaxUploaders

\* file.name of the uploads: different spellings, one sanitized name
RawNames == {NameA, <<"dir", "/">> \o NameA}

\* writeFile(finalPath, buffer) without the exclusive flag: an existing file is
\* truncated and written over
OpenTruncate(d, name, u) ==
  [eexist |-> FALSE, disk |-> MapSet(d, name, [owner |-> u, complete |-> FALSE])]

\* the open of writeFile(finalPath, buffer, { flag: "wx" }): EEXIST when the name is
\* taken, else the file is created, empty, for this upload
OpenExclusive(d, name, u) ==
  IF name \in DOMAIN d
    THEN [eexist |-> TRUE, disk |-> d]
    ELSE [eexist |-> FALSE, disk |-> MapSet(d, name, [owner |-> u, complete |-> FALSE])]

\* processSingleFile up to the call of findUniqueFilePath
StartUpload(rawName) ==
  LET filename == SanitizeFilename(rawName)
      e == ExtractFileExtension(filename)
  IN [pc |-> "probe", filename |-> filename, ext |-> e.ext, baseName |-> e.baseName,
      finalPath |-> filename, counter |-> 1, attempts |-> 0, result |-> <<>>,
      error |-> ""]

\* the output directory is empty, or holds files of the name from earlier uploads
UploadInit ==
  /\ disk \in {[n \in taken |-> [owner |-> 0, complete |-> TRUE]] :
                 taken \in {{}, {NameA}, {NameA, NewName(<<"a">>, <<"txt">>, 1)}}}
  /\ uploads \in [Uploaders -> {StartUpload(n) : n \in RawNames}]

\* findUniqueFilePath, one turn of its loop: access(finalPath) succeeds and the next
\* name is taken
ProbeTaken(u) ==
  LET up == uploads[u] IN
  /\ up.pc = "probe"
  /\ up.finalPath \in DOMAIN disk
  /\ uploads' = [uploads EXCEPT ![u] =
                   [up EXCEPT !.finalPath = NewName(up.baseName, up.ext, up.counter),
                              !.counter = up.counter + 1]]
  /\ UNCHANGED disk

\* findUniqueFilePath: access(finalPath) fails, the path is returned;
\* writeFileWithRetry starts with counter = 1 and attempts = 0
ProbeFree(u) ==
  LET up == uploads[u] IN
  /\ up.pc = "probe"
  /\ up.finalPath \notin DOMAIN disk
  /\ uploads' = [uploads EXCEPT ![u] = [up EXCEPT !.pc = "write", !.counter = 1]]
  /\ UNCHANGED disk

\* the loop of writeFileWithRetry that goes on after MAX_UPLOAD_ATTEMPTS failures
RetryFurther_Unbounded(attempts) == TRUE

\* the loop condition of writeFileWithRetry once the create has failed:
\* attempts < MAX_UPLOAD_ATTEMPTS
RetryFurther(attempts) == attempts < MAX_UPLOAD_ATTEMPTS

\* writeFileWithRetry, one turn of its loop: the exclusive create
WriteAttempt(u) ==
  LET up == uploads[u]
      o == OpenExclusive(disk, up.finalPath, u)
  IN
  /\ up.pc = "write"
  /\ disk' = o.disk
  /\ uploads' = [uploads EXCEPT ![u] =
       IF o.eexist
         THEN [up EXCEPT !.finalPath = NewName(up.baseName, up.ext, up.counter),
                         !.counter = up.counter + 1,
                         !.attempts = up.attempts + 1,
                         !.pc = IF RetryFurther(up.attempts + 1) THEN "write" ELSE "failed",
                         !.error = IF RetryFurther(up.attempts + 1) THEN ""
                                   ELSE "Could not create unique filename after multiple attempts"]
         ELSE [up EXCEPT !.pc = "fill"]]

\* writeFile writes the buffer into the file it created and returns:
\* { success: true, filename: basename(finalPath) }
WriteFill(u) ==
  LET up == uploads[u] IN
  /\ up.pc = "fill"
  /\ disk' = MapSet(disk, up.finalPath, [owner |-> u, complete |-> TRUE])
  /\ uploads' = [uploads EXCEPT ![u] = [up EXCEPT !.pc = "done", !.result = up.finalPath]]

\* another process creates the file the upload is about to create
RivalCreate(u) ==
  LET up == uploads[u] IN
  /\ up.pc = "write"
  /\ up.finalPath \notin DOMAIN disk
  /\ disk' = MapSet(disk, up.finalPath, [owner |-> 0, complete |-> TRUE])
  /\ UNCHANGED uploads

\* one upload into a directory that is empty or holds the name already
RetryInit ==
  /\ disk \in {[n \in taken |-> [owner |-> 0, complete |-> TRUE]] :
                 taken \in {{}, {NameA}, {NameA, NewName(<<"a">>, <<"txt">>, 1)}}}
  /\ uploads \in [{1} -> {StartUpload(n) : n \in RawNames}]

(***************************************************************************)
(* validatePath (security.ts)                                              *)
(***************************************************************************)
Null == <<"null">>

\* the segments of a path: the runs of tokens between the "/"
RECURSIVE SplitFrom(_, _, _)
SplitFrom(s, cur, acc) ==
  IF s = <<>> THEN Append(acc, cur)
  ELSE IF Head(s) = "/" THEN SplitFrom(Tail(s), <<>>, Append(acc, cur))
  ELSE SplitFrom(Tail(s), Append(cur, Head(s)), acc)

Split(s) == SplitFrom(s, <<>>, <<>>)

ParentSeg(seg) == seg = <<"..">> \/ seg = <<".", ".">>

CurrentSeg(seg) == seg = <<>> \/ seg = <<".">>

\* the lexical walk of path.normalize / path.resolve: "." and empty segments go,
\* ".." takes the segment before it; above the root it goes too, in front of a
\* relative path it stays
RECURSIVE Collapse(_, _, _)
Collapse(segs, out, absolute) ==
  IF segs = <<>> THEN out
  ELSE LET h == Head(segs) IN
    IF CurrentSeg(h) THEN Collapse(Tail(segs), out, absolute)
    ELSE IF ParentSeg(h)
      THEN IF out # <<>> /\ ~ParentSeg(out[Len(out)])
             THEN Collapse(Tail(segs), SubSeq(out, 1, Len(out) - 1), absolute)
           ELSE IF absolute THEN Collapse(Tail(segs), out, absolute)
           ELSE Collapse(Tail(segs), Append(out, h), absolute)
    ELSE Collapse(Tail(segs), Append(out, h), absolute)

RECURSIVE JoinSegs(_)
JoinSegs(segs) ==
  IF segs = <<>> THEN <<>>
  ELSE IF Len(segs) = 1 THEN Head(segs)
  ELSE Head(segs) \o <<"/">> \o JoinSegs(Tail(segs))

IsAbsolute(path) == StartsWith(path, <<"/">>)

\* path.normalize(decoded)
Normalize(path) ==
  LET segs == Collapse(Split(path), <<>>, IsAbsolute(path)) IN
  IF IsAbsolute(path) THEN <<"/">> \o JoinSegs(segs)
  ELSE IF segs = <<>> THEN <<".">>
  ELSE JoinSegs(segs)

\* path.resolve(baseDirectory, normalized): an absolute second argument wins
Resolve(base, path) ==
  LET from == IF IsAbsolute(path) THEN path ELSE base \o <<"/">> \o path IN
  <<"/">> \o JoinSegs(Collapse(Split(from), <<>>, TRUE))

\* the filesystem validatePath looks at, by canonical path
VpFs ==
  [p \in { <<"/">>,
           <<"/", "srv">>,
           <<"/", "srv", "/", "a">>,
           <<"/", "srv", "/", "%zz">>,
           <<"/", "srv", "/", "out">>,
           <<"/", "srv", "X">>,
           <<"/", "etc">>,
           <<"/", "etc", "/", "a">> } |->
     IF p \in {<<"/", "srv", "/", "a">>, <<"/", "srv", "/", "%zz">>, <<"/", "etc", "/", "a">>}
       THEN "file"
     ELSE IF p = <<"/", "srv", "/", "out">> THEN "link"
     ELSE "dir"]

\* where the links lead
VpTarget(p) == <<"/", "etc">>

\* realpath(path), one component after the other: a missing component or a
\* component below a file throws, a link is replaced by its target
RECURSIVE RealpathFrom(_, _)
RealpathFrom(cur, segs) ==
  IF segs = <<>> THEN [threw |-> FALSE, value |-> cur]
  ELSE LET next == IF cur = <<"/">> THEN cur \o Head(segs)
                   ELSE cur \o <<"/">> \o Head(segs)
       IN
    IF VpFs[cur] # "dir" THEN [threw |-> TRUE, value |-> <<>>]
    ELSE IF next \notin DOMAIN VpFs THEN [threw |-> TRUE, value |-> <<>>]
    ELSE IF VpFs[next] = "link" THEN RealpathFrom(VpTarget(next), Tail(segs))
    ELSE RealpathFrom(next, Tail(segs))

Realpath(path) == RealpathFrom(<<"/">>, Collapse(Split(path), <<>>, TRUE))

\* recursiveDecode's loop: decode until nothing changes; when a pass throws, the
\* last string that decoded is returned
RECURSIVE DecodeLoop(_, _)
DecodeLoop(decoded, previous) ==
  IF decoded = previous THEN decoded
  ELSE LET next == DecodeURIComponent(decoded) IN
       IF next.threw THEN decoded ELSE DecodeLoop(next.value, decoded)

\* recursiveDecode(str): the first pass is outside the try
RecursiveDecode(str) ==
  LET first == DecodeURIComponent(str) IN
  IF first.threw THEN first
  ELSE [threw |-> FALSE, value |-> DecodeLoop(first.value, <<>>)]

\* the containment test with the separator left out: a sibling whose name starts
\* with the base's name passes
WithinBase_NoSeparator(canonical, baseCanonical) ==
  StartsWith(canonical, baseCanonical) \/ canonical = baseCanonical

\* canonical.startsWith(baseCanonical + sep) || canonical === baseCanonical
WithinBase(canonical, baseCanonical) ==
  StartsWith(canonical, baseCanonical \o <<"/">>) \/ canonical = baseCanonical

\* the body of validatePath's try block: what it returns, or that it threw
ValidatePathBody(requestedPath, baseDirectory) ==
  LET decoded == RecursiveDecode(requestedPath) IN
  IF decoded.threw THEN [threw |-> TRUE, value |-> <<>>]
  ELSE LET normalized == Normalize(decoded.value)
           resolved == Resolve(baseDirectory, normalized)
           canonical == Realpath(resolved)
           baseCanonical == Realpath(baseDirectory)
       IN
    IF canonical.threw \/ baseCanonical.threw THEN [threw |-> TRUE, value |-> <<>>]
    ELSE IF ~WithinBase(canonical.value, baseCanonical.value)
      THEN [threw |-> FALSE, value |-> Null]
    ELSE [threw |-> FALSE, value |-> canonical.value]

\* validatePath(requestedPath, baseDirectory): the catch turns every throw into null
ValidatePath(requestedPath, baseDirectory) ==
  LET body == ValidatePathBody(requestedPath, baseDirectory) IN
  IF body.threw THEN [threw |-> FALSE, value |-> Null] ELSE body

\* the tokens requested paths are made of.  "%" is followed by no two hex digits
\* that decode: alone, or in front of any of these tokens, it is a URIError.
PathTokens ==
  {"/", "..", "%2F", "%252F", "%25", "%zz", "%25zz", "a", "etc", "srv", "X", "out"}

\* the paths of at most n tokens
RECURSIVE PathsUpTo(_)
PathsUpTo(n) ==
  IF n = 0 THEN {<<>>}
  ELSE LET shorter == PathsUpTo(n - 1) IN
       shorter \cup {Append(q, t) : q \in {r \in shorter : Len(r) = n - 1}, t \in PathTokens}

\* the base directories: the shared directory, and one that is gone
BaseDirectories == {<<"/", "srv">>, <<"/", "gone">>}

VpInit ==
  vp \in {[req |-> r, base |-> b, done |-> FALSE, threw |-> FALSE, value |-> Null] :
            r \in PathsUpTo(MaxPathLen), b \in BaseDirectories}

Validate ==
  /\ ~vp.done
  /\ LET r == ValidatePath(vp.req, vp.base) IN
     vp' = [vp EXCEPT !.done = TRUE, !.threw = r.threw, !.value = r.value]

(***************************************************************************)
(* parseRangeHeader (security.ts).  A header is a sequence of tokens:      *)
(* "bytes=", ",", "-", " ", a run of digits ("0", "1", ...), or a run of   *)
(* other characters ("x").                                                 *)
(***************************************************************************)
\* MAX_RANGES
MAX_RANGES == 5

\* the numbers written in a header
RangeNumbers == 0..(MaxFileSize + 1)

IsNumberToken(tok) == \E n \in RangeNumbers : ToString(n) = tok

NumberOf(tok) == CHOOSE n \in RangeNumbers : ToString(n) = tok

\* String.prototype.split(sep)
RECURSIVE SplitOnFrom(_, _, _, _)
SplitOnFrom(s, sep, cur, acc) ==
  IF s = <<>> THEN Append(acc, cur)
  ELSE IF Head(s) = sep THEN SplitOnFrom(Tail(s), sep, <<>>, Append(acc, cur))
  ELSE SplitOnFrom(Tail(s), sep, Append(cur, Head(s)), acc)

SplitOn(s, sep) == SplitOnFrom(s, sep, <<>>, <<>>)

\* String.prototype.trim
RECURSIVE TrimStart(_)
TrimStart(s) == IF s # <<>> /\ Head(s) = " " THEN TrimStart(Tail(s)) ELSE s

RECURSIVE TrimEnd(_)
TrimEnd(s) ==
  IF s # <<>> /\ s[Len(s)] = " " THEN TrimEnd(SubSeq(s, 1, Len(s) - 1)) ELSE s

Trim(s) == TrimEnd(TrimStart(s))

\* String.prototype.indexOf(c): the first index (from 1), 0 when there is none
IndexOf(s, c) ==
  IF \E i \in 1..Len(s) : s[i] = c
    THEN CHOOSE i \in 1..Len(s) : s[i] = c /\ \A j \in 1..(i - 1) : s[j] # c
    ELSE 0

NaN == [nan |-> TRUE, n |-> 0]

\* parseInt(str, 10): leading blanks go, a sign is read, then the leading run of
\* digits; whatever follows the digits is ignored; no digits give NaN
ParseInt(str) ==
  LET t == TrimStart(str)
      signed == t # <<>> /\ Head(t) \in {"-", "+"}
      digits == IF signed THEN Tail(t) ELSE t
  IN
  IF digits = <<>> \/ ~IsNumberToken(Head(digits)) THEN NaN
  ELSE [nan |-> FALSE,
        n |-> IF signed /\ Head(t) = "-" THEN 0 - NumberOf(Head(digits))
              ELSE NumberOf(Head(digits))]

\* the clamping at the end of the loop body (lines 128-130)
ClampRange(start, end, fileSize) ==
  LET s == Max(0, IF start <= fileSize - 1 THEN start ELSE fileSize - 1)
      e == Max(s, IF end <= fileSize - 1 THEN end ELSE fileSize - 1)
  IN <<[start |-> s, end |-> e]>>

\* the full-range test with `end >= fileSize` left out
FullRangeInvalid_NoUpperBound(start, end, fileSize) ==
  start.nan \/ end.nan \/ start.n < 0 \/ end.n < start.n

\* isNaN(start) || isNaN(end) || start < 0 || end < start || end >= fileSize
FullRangeInvalid(start, end, fileSize) ==
  start.nan \/ end.nan \/ start.n < 0 \/ end.n < start.n \/ end.n >= fileSize

\* one turn of the loop over rangeParts: the ranges it pushes (one or none)
ParseRangePart(part, fileSize) ==
  LET trimmed == Trim(part)
      dashIndex == IndexOf(trimmed, "-")
      startStr == SubSeq(trimmed, 1, dashIndex - 1)
      endStr == Slice(trimmed, dashIndex)
  IN
  IF dashIndex = 0 THEN <<>>
  ELSE IF startStr = <<>>
    THEN LET suffix == ParseInt(endStr) IN
         IF suffix.nan \/ suffix.n <= 0 THEN <<>>
         ELSE ClampRange(Max(0, fileSize - suffix.n), fileSize - 1, fileSize)
  ELSE IF endStr = <<>>
    THEN LET start == ParseInt(startStr) IN
         IF start.nan \/ start.n < 0 THEN <<>>
         ELSE ClampRange(start.n, fileSize - 1, fileSize)
  ELSE LET start == ParseInt(startStr)
           end == ParseInt(endStr)
       IN IF FullRangeInvalid(start, end, fileSize) THEN <<>>
          ELSE ClampRange(start.n, end.n, fileSize)

RECURSIVE ParseRangeParts(_, _)
ParseRangeParts(parts, fileSize) ==
  IF parts = <<>> THEN <<>>
  ELSE ParseRangePart(Head(parts), fileSize) \o ParseRangeParts(Tail(parts), fileSize)

\* no Range header: request.headers.get("range") is null
NoHeader == <<>>

\* parseRangeHeader(rangeHeader, fileSize): the ranges, <<>> for null
ParseRangeHeader(rangeHeader, fileSize) ==
  IF rangeHeader = NoHeader \/ ~StartsWith(rangeHeader, <<"bytes=">>) THEN <<>>
  ELSE LET rangeParts == SplitOn(Slice(rangeHeader, 1), ",") IN
       IF Len(rangeParts) > MAX_RANGES THEN <<>>
       ELSE ParseRangeParts(rangeParts, fileSize)

\* the range specifications headers are built from: every 'N-M', 'N-' and '-N',
\* and specifications with blanks, stray characters, a second dash or no number
RangeSpecs ==
  UNION {
    {<<ToString(n), "-", ToString(m)>> : n \in RangeNumbers, m \in RangeNumbers},
    {<<ToString(n), "-">> : n \in RangeNumbers},
    {<<"-", ToString(n)>> : n \in RangeNumbers},
    { <<"x">>, <<"-">>, <<>>, <<"1">>,
      <<" ", "0", "-", "1", " ">>,
      <<"1", "x", "-", "2">>,
      <<"0", "-", "1", "x">>,
      <<"x", "-", "1">>,
      <<"0", "-", "x">>,
      <<"-", "-", "1">>,
      <<"0", "-", "1", "-", "2">> }
  }

\* parts joined by ","
RECURSIVE JoinComma(_)
JoinComma(parts) ==
  IF parts = <<>> THEN <<>>
  ELSE IF Len(parts) = 1 THEN Head(parts)
  ELSE Head(parts) \o <<",">> \o JoinComma(Tail(parts))

\* the sequences over S of length at most n
RECURSIVE SeqsUpTo(_, _)
SeqsUpTo(S, n) ==
  IF n = 0 THEN {<<>>}
  ELSE LET shorter == SeqsUpTo(S, n - 1) IN
       shorter \cup {Append(q, t) : q \in {r \in shorter : Len(r) = n - 1}, t \in S}

\* the specifications that headers with several of them are built from
ListedSpecs ==
  { <<"0", "-", "1">>, <<"1", "-">>, <<"-", "1">>, <<"x">>,
    <<"1", "-", "0">>, <<" ", "0", "-", "0">> }

\* the headers: absent, empty, with another unit, with one specification of any
\* kind, with up to MaxRangeParts listed specifications, and with MAX_RANGES and
\* MAX_RANGES + 1 specifications of two kinds
RangeHeaders ==
  UNION {
    {NoHeader, <<"items=", "0", "-", "1">>, <<"Bytes=", "0", "-", "1">>},
    {<<"bytes=">> \o spec : spec \in RangeSpecs},
    {<<"bytes=">> \o JoinComma(parts) : parts \in SeqsUpTo(ListedSpecs, MaxRangeParts)},
    {<<"bytes=">> \o JoinComma(parts) :
       parts \in {q \in SeqsUpTo({<<"0", "-", "0">>, <<"x">>}, MAX_RANGES + 1) :
                    Len(q) >= MAX_RANGES}}
  }

NoRanges == <<>>

RgInit ==
  rg \in {[header |-> h, fileSize |-> n, done |-> FALSE, ranges |-> NoRanges] :
            h \in RangeHeaders, n \in 0..MaxFileSize}

ParseRange ==
  /\ ~rg.done
  /\ rg' = [rg EXCEPT !.done = TRUE, !.ranges = ParseRangeHeader(rg.header, rg.fileSize)]

(***************************************************************************)
(* Transfers: the three data-moving handlers of server.ts run concurrently *)
(* (each is an async function that yields at its awaits) and report to the *)
(* transfer monitor (monitor.ts).                                          *)
(***************************************************************************)
Calls == {"h1", "h2"}

\* recordDownload(bytes)
RecordDownload(m, bytes) ==
  [m EXCEPT !.downloads = @ + 1, !.totalBytesDownloaded = @ + bytes]

\* recordUpload(bytes)
RecordUpload(m, bytes) ==
  [m EXCEPT !.uploads = @ + 1, !.totalBytesUploaded = @ + bytes]

\* incrementActiveTransfers()
IncrementActiveTransfers(m) == [m EXCEPT !.activeTransfers = @ + 1]

\* an exit that leaves the counter as it is
DecrementActiveTransfers_Skipped(m) == m

\* decrementActiveTransfers()
DecrementActiveTransfers(m) == [m EXCEPT !.activeTransfers = Max(0, @ - 1)]

NewStats ==
  [downloads |-> 0, uploads |-> 0, totalBytesDownloaded |-> 0,
   totalBytesUploaded |-> 0, activeTransfers |-> 0]

\* Blob.slice(begin, end): the offsets begin..end-1 that the blob has
BlobSlice(size, begin, end) ==
  LET stop == IF end < size THEN end ELSE size IN
  IF stop <= begin THEN <<>> ELSE [i \in 1..(stop - begin) |-> begin + i - 1]

NoContentRange == [start |-> Undefined, end |-> Undefined, size |-> Undefined]

\* a response: status, the Content-Length and Content-Range headers the handler
\* sets (Undefined when it sets none), the offsets of the file in the body, and
\* the length of a body that is not a slice of a shared file
NoReply ==
  [status |-> 0, contentLength |-> Undefined, contentRange |-> NoContentRange,
   body |-> <<>>, otherLength |-> 0]

Reply(status) == [NoReply EXCEPT !.status = status]

\* lines 307-348 of handleFileDownloadRequest: the whole file, or the first range
ServeFile(fileSize, rangeHeader) ==
  LET ranges == ParseRangeHeader(rangeHeader, fileSize) IN
  IF ranges = NoRanges
    THEN [Reply(200) EXCEPT !.contentLength = fileSize,
                            !.body = BlobSlice(fileSize, 0, fileSize)]
    ELSE LET start == ranges[1].start
             end == ranges[1].end
             contentLength == end - start + 1
         IN [Reply(206) EXCEPT !.contentLength = contentLength,
                               !.contentRange = [start |-> start, end |-> end, size |-> fileSize],
                               !.body = BlobSlice(fileSize, start, end + 1)]

\* the archive's size: an entry header and the bytes of every file stat can reach
RECURSIVE ZipSize(_, _, _)
ZipSize(f, sz, paths) ==
  IF paths = <<>> THEN 0
  ELSE (IF StatIsFile(f, Head(paths)) THEN 1 + sz[Head(paths)] ELSE 0)
       + ZipSize(f, sz, Tail(paths))

IdleCall ==
  [kind |-> "none", pc |-> "idle", filename |-> <<>>, range |-> NoHeader,
   parts |-> <<>>, filePath |-> <<>>, fileSize |-> 0, reply |-> NoReply,
   increments |-> 0, decrements |-> 0]

\* the handler is entered: transferMonitor.incrementActiveTransfers()
Entered(call, kind) ==
  [call EXCEPT !.kind = kind, !.increments = @ + 1]

\* the handler returns after transferMonitor.decrementActiveTransfers()
Returned(call, reply) ==
  [call EXCEPT !.pc = "returned", !.reply = reply, !.decrements = @ + 1]

\* the range headers of the downloads
DownloadRanges ==
  { NoHeader, <<"bytes=", "0", "-">>, <<"bytes=", "1", "-", "2">>,
    <<"bytes=", "-", "1">>, <<"bytes=", "x">>,
    <<"bytes=", "1", "-", "1", ",", "0", "-", "0">> }

NameMissing == <<"m", ".", "txt">>

srvConfig == <<customPath, allowIps, rateLimit, allowedTypes, validFilePaths, fileMap,
               outputFiles, running, resp, requests, maxRequests, windowMs, now>>

\* handleFileDownloadRequest up to `await exists(filePath)`: the counter goes up,
\* then the type check and the name resolution (lines 212-288)
DownloadEnter(h, filename, rangeHeader) ==
  /\ handlers[h].pc = "idle"
  /\ LET call == [Entered(handlers[h], "download") EXCEPT !.filename = filename,
                                                          !.range = rangeHeader]
         filePath == ResolveFilePath(fs, fileMap, validFilePaths, filename)
     IN
     IF DownloadTypeDenied(filename, allowedTypes)
       THEN /\ stats' = DecrementActiveTransfers(IncrementActiveTransfers(stats))
            /\ handlers' = [handlers EXCEPT ![h] = Returned(call, Reply(403))]
     ELSE IF filePath = <<>>
       THEN /\ stats' = DecrementActiveTransfers(IncrementActiveTransfers(stats))
            /\ handlers' = [handlers EXCEPT ![h] = Returned(call, Reply(404))]
     ELSE /\ stats' = IncrementActiveTransfers(stats)
          /\ handlers' = [handlers EXCEPT ![h] = [call EXCEPT !.pc = "exists",
                                                              !.filePath = filePath]]
  /\ UNCHANGED <<fs, sizes, srvConfig>>

\* `await exists(filePath)` has answered (lines 291-295)
DownloadExists(h) ==
  /\ handlers[h].kind = "download" /\ handlers[h].pc = "exists"
  /\ IF ~Exists(fs, handlers[h].filePath)
       THEN /\ stats' = DecrementActiveTransfers(stats)
            /\ handlers' = [handlers EXCEPT ![h] = Returned(@, Reply(404))]
       ELSE /\ stats' = stats
            /\ handlers' = [handlers EXCEPT ![h].pc = "stat"]
  /\ UNCHANGED <<fs, sizes, srvConfig>>

\* `await stat(filePath)` has answered or thrown, and the response is built
\* (lines 299-367)
DownloadServe(h) ==
  /\ handlers[h].kind = "download" /\ handlers[h].pc = "stat"
  /\ LET filePath == handlers[h].filePath
         fileSize == sizes[filePath]
     IN
     IF ~Exists(fs, filePath)
       THEN /\ stats' = DecrementActiveTransfers(stats)
            /\ handlers' = [handlers EXCEPT ![h] = Returned(@, Reply(500))]
     ELSE IF ~StatIsFile(fs, filePath)
       THEN /\ stats' = DecrementActiveTransfers(stats)
            /\ handlers' = [handlers EXCEPT ![h] = Returned(@, Reply(404))]
     ELSE /\ stats' = DecrementActiveTransfers(RecordDownload(stats, fileSize))
          /\ handlers' = [handlers EXCEPT ![h] =
               Returned([@ EXCEPT !.fileSize = fileSize],
                        ServeFile(fileSize, handlers[h].range))]
  /\ UNCHANGED <<fs, sizes, srvConfig>>

\* handleUploadRequest up to its first await (lines 376-383, 411)
UploadEnter(h, parts) ==
  /\ handlers[h].pc = "idle"
  /\ Cardinality(outputFiles)
       + Cardinality({c \in Calls : handlers[c].kind = "upload" /\ handlers[c].pc # "returned"})
       < SrvMaxUploads
  /\ stats' = IncrementActiveTransfers(stats)
  /\ handlers' = [handlers EXCEPT ![h] =
       [Entered(@, "upload") EXCEPT !.parts = parts,
          !.pc = IF Len(allowedTypes) > 0 THEN "formData" ELSE "handleUpload"]]
  /\ UNCHANGED <<fs, sizes, srvConfig>>

\* `await clonedRequest.formData()` has answered or thrown (lines 383-409, 436-445)
UploadFormData(h, threw) ==
  /\ handlers[h].kind = "upload" /\ handlers[h].pc = "formData"
  /\ IF threw
       THEN /\ stats' = DecrementActiveTransfers(stats)
            /\ handlers' = [handlers EXCEPT ![h] = Returned(@, Reply(500))]
     ELSE IF UploadTypeDenied(handlers[h].parts, allowedTypes)
       THEN /\ stats' = DecrementActiveTransfers(stats)
            /\ handlers' = [handlers EXCEPT ![h] = Returned(@, Reply(403))]
     ELSE /\ stats' = stats
          /\ handlers' = [handlers EXCEPT ![h].pc = "handleUpload"]
  /\ UNCHANGED <<fs, sizes, srvConfig>>

\* `await handleUpload(request, outputDirectory)` has answered (lines 411-435);
\* every part holds one byte
UploadHandled(h) ==
  /\ handlers[h].kind = "upload" /\ handlers[h].pc = "handleUpload"
  /\ LET result == HandleUploadRequest(outputFiles, handlers[h].parts, <<>>)
         uploadSize == Len(result.body.names)
     IN
     /\ stats' = DecrementActiveTransfers(
                   IF result.body.success /\ uploadSize > 0
                     THEN RecordUpload(stats, uploadSize) ELSE stats)
     /\ handlers' = [handlers EXCEPT ![h] = Returned(@, Reply(result.status))]
     /\ outputFiles' = result.present
  /\ UNCHANGED <<fs, sizes, customPath, allowIps, rateLimit, allowedTypes, validFilePaths,
                 fileMap, running, resp, requests, maxRequests, windowMs, now>>

\* handleDownloadAllRequest up to `await zipFiles(allFilePaths)` (lines 453-469)
DownloadAllEnter(h) ==
  /\ handlers[h].pc = "idle"
  /\ IF Len(fileMap) = 0
       THEN /\ stats' = DecrementActiveTransfers(IncrementActiveTransfers(stats))
            /\ handlers' = [handlers EXCEPT ![h] =
                 Returned(Entered(@, "download-all"), Reply(404))]
       ELSE /\ stats' = IncrementActiveTransfers(stats)
            /\ handlers' = [handlers EXCEPT ![h] =
                 [Entered(@, "download-all") EXCEPT !.pc = "zipFiles"]]
  /\ UNCHANGED <<fs, sizes, srvConfig>>

\* `await zipFiles(allFilePaths)` has answered or thrown (lines 469-513)
DownloadAllZipped(h, threw) ==
  /\ handlers[h].kind = "download-all" /\ handlers[h].pc = "zipFiles"
  /\ IF threw
       THEN /\ stats' = DecrementActiveTransfers(stats)
            /\ handlers' = [handlers EXCEPT ![h] = Returned(@, Reply(500))]
       ELSE LET zipSize == ZipSize(fs, sizes, [i \in 1..Len(fileMap) |-> fileMap[i].path]) IN
            /\ stats' = DecrementActiveTransfers(RecordDownload(stats, zipSize))
            /\ handlers' = [handlers EXCEPT ![h] =
                 Returned(@, [Reply(200) EXCEPT !.contentLength = zipSize,
                                                !.otherLength = zipSize])]
  /\ UNCHANGED <<fs, sizes, srvConfig>>

\* a shared file is removed, or put back, while handlers run
TransferFsChange(kind) ==
  /\ FsChange(FileA, kind)
  /\ UNCHANGED xferVars

\* a server of regular files, with and without a type filter, the monitor at
\* zero, no handler running; a.txt has any size, the other files hold one byte
TransferInit ==
  /\ SrvInitWith({f \in InitialFs : f[FileL] = "file"}, {RootPath}, {<<>>},
                 {Undefined}, {<<>>, << <<"txt">> >>})
  /\ stats = NewStats
  /\ sizes \in {[p \in {FileA, FileB, FileL} |-> IF p = FileA THEN n ELSE 1] :
                  n \in 0..MaxFileSize}
  /\ handlers = [h \in Calls |-> IdleCall]

(***************************************************************************)
(* handleUpload (upload.ts) on a request with any number of file parts.    *)
(* A part is [name, size, fault]: its size is in GiB, and its fault is the *)
(* error writeFile ends with when it is not EEXIST ("none": it succeeds).  *)
(***************************************************************************)
\* MAX_FILE_SIZE, in GiB
MAX_FILE_SIZE_GIB == 10

NoError == <<>>

\* the result of one part: what processSingleFile returns or throws, and the
\* output directory after it
PartResult(success, filename, size, error, threw, present) ==
  [success |-> success, filename |-> filename, size |-> size, error |-> error,
   threw |-> threw, present |-> present]

\* processSingleFile(file, outputDirectory), no other writer in between
ProcessFile(present, file) ==
  IF file.size > MAX_FILE_SIZE_GIB
    THEN PartResult(FALSE, <<>>, 0, "File size exceeds maximum", FALSE, present)
  ELSE IF file.fault # "none"
    THEN PartResult(FALSE, <<>>, 0, file.fault, TRUE, present)
  ELSE LET final == ProcessSingleFile(present, file.name) IN
       PartResult(TRUE, final, file.size, "", FALSE, present \cup {final})

\* an UploadResult; `written` is not part of it: the files the call has put
\* into the output directory, with their sizes
UploadResult(success, filenames, size, totalSize, fileCount, error, written) ==
  [success |-> success, filenames |-> filenames, size |-> size, totalSize |-> totalSize,
   fileCount |-> fileCount, error |-> error, written |-> written]

\* the loop of lines 242-252 from part i on, and the returns of lines 254-276
RECURSIVE UploadLoop(_, _, _, _, _, _, _, _)
UploadLoop(files, i, present, firstSize, successfulFiles, totalSize, errors, written) ==
  IF i > Len(files)
    THEN IF Len(successfulFiles) = 0
           THEN UploadResult(FALSE, <<>>, Undefined, Undefined, Undefined, errors, written)
           ELSE UploadResult(TRUE, successfulFiles, firstSize, totalSize,
                             Len(successfulFiles), NoError, written)
  ELSE LET result == ProcessFile(present, files[i])
           first == IF i = 1 THEN (IF result.success THEN result.size ELSE Undefined)
                    ELSE firstSize
       IN
       IF result.threw
         THEN UploadResult(FALSE, <<>>, Undefined, Undefined, Undefined,
                           <<[file |-> <<>>, error |-> result.error]>>, written)
       ELSE IF result.success
         THEN UploadLoop(files, i + 1, result.present, first,
                         Append(successfulFiles, result.filename), totalSize + result.size,
                         errors,
                         Append(written, [name |-> result.filename, size |-> result.size]))
       ELSE UploadLoop(files, i + 1, result.present, first, successfulFiles, totalSize,
                       Append(errors, [file |-> files[i].name, error |-> result.error]),
                       written)

\* handleUpload(request, outputDirectory) into an empty output directory
HandleUpload(files) ==
  IF Len(files) = 0
    THEN UploadResult(FALSE, <<>>, Undefined, Undefined, Undefined,
                      <<[file |-> <<>>, error |-> "No file provided"]>>, <<>>)
  ELSE IF Len(files) = 1
    THEN LET result == ProcessFile({}, files[1]) IN
         IF result.success
           THEN UploadResult(TRUE, <<>>, result.size, Undefined, Undefined, NoError,
                             <<[name |-> result.filename, size |-> result.size]>>)
           ELSE UploadResult(FALSE, <<>>, Undefined, Undefined, Undefined,
                             <<[file |-> <<>>, error |-> result.error]>>, <<>>)
  ELSE UploadLoop(files, 1, {}, Undefined, <<>>, 0, <<>>, <<>>)

\* the file parts: two names, a size below and one above the maximum, a write
\* that succeeds and one that fails with an I/O error
FileParts ==
  {[name |-> n, size |-> z, fault |-> f] :
     n \in {NameA, NameB}, z \in {1, MAX_FILE_SIZE_GIB + 1}, f \in {"none", "EIO"}}

NoUploadResult == UploadResult(FALSE, <<>>, Undefined, Undefined, Undefined, NoError, <<>>)

BatchInit ==
  batch \in {[files |-> files, done |-> FALSE, result |-> NoUploadResult] :
               files \in SeqsUpTo(FileParts, MaxBatchParts)}

Upload ==
  /\ ~batch.done
  /\ batch' = [batch EXCEPT !.done = TRUE, !.result = HandleUpload(batch.files)]

(***************************************************************************)
(* The catalog: a server started on several paths answers GET /files and   *)
(* then GET /files/:filename for every name it listed.                     *)
(***************************************************************************)
\* a second file of the name a.txt, outside the shared directory
FileA2 == <<"/", "home", "/", "a", ".", "txt">>

ShareRoots == {ShareDir, FileL, FileA2}

\* the lists of distinct paths the server can be started with
RootLists ==
  {roots \in SeqsUpTo(ShareRoots, MaxRoots) :
     /\ Len(roots) >= 1
     /\ \A i, j \in 1..Len(roots) : i # j => roots[i] # roots[j]}

\* the directory with b.exe, and the regular files that may be there
CatalogFs ==
  {[p \in {ShareDir, FileA, FileB, FileL, FileA2} |->
      IF p = ShareDir THEN "dir"
      ELSE IF p = FileB \/ p \in present THEN "file" ELSE "absent"] :
     present \in SUBSET {FileA, FileL, FileA2}}

\* the path each listed name is served from by GET /files/:filename
RECURSIVE ServedPaths(_, _, _, _, _)
ServedPaths(f, fm, vfp, types, names) ==
  IF names = <<>> THEN <<>>
  ELSE <<HandleFileDownloadRequest(f, fm, vfp, types, Head(names)).body.path>>
       \o ServedPaths(f, fm, vfp, types, Tail(names))

CatInit ==
  cat \in {[fs |-> f, roots |-> roots, types |-> types, done |-> FALSE,
            fileMap |-> <<>>, files |-> <<>>, served |-> <<>>] :
             f \in CatalogFs, roots \in RootLists,
             types \in {<<>>, << <<"txt">> >>, << <<"exe">> >>}}

\* createServer (validateFilePaths, buildFileMap), then GET /files, then
\* GET /files/:filename for each name of the answer
ServeCatalog ==
  /\ ~cat.done
  /\ LET vfp == ValidateFilePaths(cat.fs, cat.roots)
         fm == BuildFileMap(cat.fs, vfp)
         files == HandleFilesListRequest(cat.fs, vfp, cat.types).body.names
     IN cat' = [cat EXCEPT !.done = TRUE, !.fileMap = fm, !.files = files,
                           !.served = ServedPaths(cat.fs, fm, vfp, cat.types, files)]

(***************************************************************************)
(* The process (index.ts, main): the timeout timer set after the server    *)
(* has started, and the other ways the server is stopped.  Time is in      *)
(* minutes.                                                                *)
(***************************************************************************)
\* DEFAULT_TIMEOUT_MS, in minutes
DEFAULT_TIMEOUT_MINUTES == 10

\* the clock runs one minute beyond the default timeout
LifeEnd == DEFAULT_TIMEOUT_MINUTES + 1

\* a timer is set whatever options.keepAlive says
TimerWanted_Always(keepAlive) == TRUE

\* if (!options.keepAlive)
TimerWanted(keepAlive) == ~keepAlive

\* options.timeout ?? DEFAULT_TIMEOUT_MS
TimeoutMs(timeout) == IF timeout = Undefined THEN DEFAULT_TIMEOUT_MINUTES ELSE timeout

\* main from the start of the server on: timeoutId is the time the timer is due
\* at, Undefined for null
LifeInit ==
  life \in {[keepAlive |-> k, timeout |-> t, clock |-> 0,
             timeoutId |-> IF TimerWanted(k) THEN TimeoutMs(t) ELSE Undefined,
             server |-> "running", cause |-> "none", stoppedAt |-> Undefined,
             active |-> 0] :
              k \in BOOLEAN, t \in {Undefined} \cup (1..MaxTimeout)}

\* a minute passes; a timer that is due runs before the next one does
LifeTick ==
  /\ life.clock < LifeEnd
  /\ life.server = "running" /\ life.timeoutId # Undefined => life.clock < life.timeoutId
  /\ life' = [life EXCEPT !.clock = @ + 1]

\* the callback of the timeout timer: server.stop(), process.exit(0)
TimeoutFires ==
  /\ life.server = "running"
  /\ life.timeoutId # Undefined
  /\ life.clock >= life.timeoutId
  /\ life' = [life EXCEPT !.server = "stopped", !.cause = "timeout",
                          !.stoppedAt = life.clock]

\* shutdown(), on SIGINT, SIGTERM or the q key: clearTimeout, server.stop(),
\* process.exit(0)
Shutdown ==
  /\ life.server = "running"
  /\ life' = [life EXCEPT !.timeoutId = Undefined, !.server = "stopped",
                          !.cause = "shutdown", !.stoppedAt = life.clock]

\* the timer of handleStopRequest: serverInstance.stop(), process.exit(0)
StopRequested ==
  /\ life.server = "running"
  /\ life' = [life EXCEPT !.server = "stopped", !.cause = "stop-request",
                          !.stoppedAt = life.clock]

\* a transfer handler is entered
TransferBegins ==
  /\ life.server = "running"
  /\ life.active < MaxActive
  /\ life' = [life EXCEPT !.active = @ + 1]

\* a transfer handler returns
TransferEnds ==
  /\ life.server = "running"
  /\ life.active > 0
  /\ life' = [life EXCEPT !.active = @ - 1]

(***************************************************************************)
(* The allow-list (security.ts): isIPAllowed with CIDR and wildcard        *)
(* entries.  An address is a sequence of tokens, its numbers and the dots  *)
(* between them; a 32-bit integer is its 32 bits, the highest first.       *)
(***************************************************************************)
\* the numbers written in addresses and prefixes
IpNumbers == 0..300

IpNumberTokens == {ToString(n) : n \in IpNumbers}

\* parseInt(str, 10) of a string of the allow-list: a sign, then the leading run
\* of digits; NaN without one
ParseIntIp(str) ==
  LET signed == str # <<>> /\ Head(str) \in {"-", "+"}
      digits == IF signed THEN Tail(str) ELSE str
  IN
  IF digits = <<>> \/ Head(digits) \notin IpNumberTokens THEN NaN
  ELSE LET n == CHOOSE m \in IpNumbers : ToString(m) = Head(digits) IN
       [nan |-> FALSE, n |-> IF signed /\ Head(str) = "-" THEN 0 - n ELSE n]

Bits == 1..32

ZeroWord == [i \in Bits |-> 0]

\* ~0
OnesWord == [i \in Bits |-> 1]

\* the bits of a number of 0..255
WordOf(num) == [i \in Bits |-> IF i <= 24 THEN 0 ELSE (num \div (2 ^ (32 - i))) % 2]

\* w << n: the shift count is taken modulo 32
ShiftLeft(w, n) ==
  LET c == n % 32 IN [i \in Bits |-> IF i + c <= 32 THEN w[i + c] ELSE 0]

\* v | w
BitOr(v, w) == [i \in Bits |-> IF v[i] = 1 \/ w[i] = 1 THEN 1 ELSE 0]

\* v & w
BitAnd(v, w) == [i \in Bits |-> IF v[i] = 1 /\ w[i] = 1 THEN 1 ELSE 0]

NullWord == [null |-> TRUE, word |-> ZeroWord]

\* the loop of ipv4ToInt over the parts
RECURSIVE Ipv4Parts(_, _)
Ipv4Parts(parts, result) ==
  IF parts = <<>> THEN [null |-> FALSE, word |-> result]
  ELSE LET num == ParseIntIp(Head(parts)) IN
       IF num.nan \/ num.n < 0 \/ num.n > 255 THEN NullWord
       ELSE Ipv4Parts(Tail(parts), BitOr(ShiftLeft(result, 8), WordOf(num.n)))

\* ipv4ToInt(ip)
Ipv4ToInt(ip) ==
  LET parts == SplitOn(ip, ".") IN
  IF Len(parts) # 4 THEN NullWord ELSE Ipv4Parts(parts, ZeroWord)

\* the mask without the case of prefix 0
SubnetMask_NoZeroCase(prefix) == ShiftLeft(OnesWord, 32 - prefix)

\* prefix === 0 ? 0 : (~0 << (32 - prefix)) >>> 0
SubnetMask(prefix) == IF prefix = 0 THEN ZeroWord ELSE ShiftLeft(OnesWord, 32 - prefix)

\* matchesCIDR(ip, cidr)
MatchesCIDR(ip, cidr) ==
  LET parts == SplitOn(cidr, "/") IN
  IF Len(parts) # 2 THEN FALSE
  ELSE IF parts[1] = <<>> \/ parts[2] = <<>> THEN FALSE
  ELSE LET prefix == ParseIntIp(parts[2]) IN
       IF prefix.nan \/ prefix.n < 0 \/ prefix.n > 32 THEN FALSE
       ELSE LET ipInt == Ipv4ToInt(ip)
                networkInt == Ipv4ToInt(parts[1])
            IN IF ipInt.null \/ networkInt.null THEN FALSE
               ELSE BitAnd(ipInt.word, SubnetMask(prefix.n))
                      = BitAnd(networkInt.word, SubnetMask(prefix.n))

\* the wildcard test: the entry with every * standing for one to three digits
WildcardMatches(clientIP, allowed) ==
  /\ Len(clientIP) = Len(allowed)
  /\ \A i \in 1..Len(allowed) :
       IF allowed[i] = "*"
         THEN \E n \in 0..999 : ToString(n) = clientIP[i]
         ELSE allowed[i] = clientIP[i]

Includes(str, c) == \E i \in 1..Len(str) : str[i] = c

\* isIPAllowed(clientIP, allowedIPs) with entries of every kind
RECURSIVE IsIPAllowedIn(_, _)
IsIPAllowedIn(clientIP, allowedIPs) ==
  IF allowedIPs = <<>> THEN FALSE
  ELSE LET allowed == Head(allowedIPs) IN
       IF allowed = clientIP THEN TRUE
       ELSE IF Includes(allowed, "/")
         THEN MatchesCIDR(clientIP, allowed) \/ IsIPAllowedIn(clientIP, Tail(allowedIPs))
       ELSE IF Includes(allowed, "*") /\ WildcardMatches(clientIP, allowed) THEN TRUE
       ELSE IsIPAllowedIn(clientIP, Tail(allowedIPs))

IsIPAllowedTokens(clientIP, allowedIPs) ==
  IF Len(allowedIPs) = 0 THEN TRUE ELSE IsIPAllowedIn(clientIP, allowedIPs)

\* the dotted quad of four octets
DottedQuad(o) ==
  <<ToString(o[1]), ".", ToString(o[2]), ".", ToString(o[3]), ".", ToString(o[4])>>

\* the octets of the address that differs from o in bit b alone
FlipBit(o, b) ==
  LET k == ((b - 1) \div 8) + 1
      weight == 2 ^ (7 - ((b - 1) % 8))
  IN [o EXCEPT ![k] = IF (@ \div weight) % 2 = 1 THEN @ - weight ELSE @ + weight]

\* the networks of the entries
NetworkOctets ==
  { <<0, 0, 0, 0>>, <<255, 255, 255, 255>>, <<255, 0, 255, 0>>, <<0, 255, 0, 255>>,
    <<128, 0, 0, 1>>, <<192, 168, 1, 0>>, <<10, 0, 0, 1>> }

\* the clients met with a network: itself, every address one bit away from it,
\* and every network
ClientOctets(network) == {network} \cup {FlipBit(network, b) : b \in Bits} \cup NetworkOctets

\* the prefixes written in the entries: 0..32 and some outside
PrefixStrings ==
  {<<ToString(p)>> : p \in 0..34} \cup {<<"-", "1">>, <<"x">>}

\* other entries: wildcards, and an entry without a prefix
OtherEntries ==
  { <<"192", ".", "168", ".", "*", ".", "*">>, <<"10", ".", "0", ".", "0", ".", "*">>,
    <<"10", ".", "0", ".", "0", ".", "1", "/">> }

IpInit ==
  ipc \in UNION {{[client |-> DottedQuad(c), entry |-> DottedQuad(n) \o <<"/">> \o p,
                   done |-> FALSE, allowed |-> FALSE] :
                    c \in ClientOctets(n), p \in PrefixStrings} : n \in NetworkOctets}
       \cup
       {[client |-> DottedQuad(c), entry |-> e, done |-> FALSE, allowed |-> FALSE] :
             c \in NetworkOctets, e \in OtherEntries}

\* isIPAllowed(clientIP, [entry])
CheckIP ==
  /\ ~ipc.done
  /\ ipc' = [ipc EXCEPT !.done = TRUE,
                        !.allowed = IsIPAllowedTokens(ipc.client, <<ipc.entry>>)]

(***************************************************************************)
(* The temporary archives of GET /download-all (server.ts, zip.ts).  The   *)
(* clock counts milliseconds; an archive's path is its timestamp.  disk    *)
(* maps each archive in the temporary directory to the calls that opened   *)
(* it for writing, pending is tempZipFiles, created the archives ever      *)
(* opened.  The counters of the transfer monitor are in SpecTransfer.      *)
(***************************************************************************)
\* the delay of the clean-up after the response
ZIP_CLEANUP_DELAY_MS == 5000

\* the steps of the clock: within one millisecond, and past the delay
ZipSteps == {1, ZIP_CLEANUP_DELAY_MS}

IdleZipCall == [pc |-> "idle", zipPath |-> Undefined, due |-> Undefined, status |-> 0]

ZipInit ==
  zip = [clock |-> 0, ticks |-> 0, alive |-> TRUE, disk |-> <<>>, pending |-> {},
         call |-> [h \in Calls |-> IdleZipCall], created |-> {}]

\* unlink of every path of the set; a path that is gone is passed over
UnlinkAll(d, paths) == [p \in (DOMAIN d) \ paths |-> d[p]]

\* createWriteStream(zipPath): the file is made, or emptied when it is there
CreateWriteStream(d, p, h) ==
  [q \in (DOMAIN d) \cup {p} |->
     IF q = p THEN (IF p \in DOMAIN d THEN d[p] ELSE {}) \cup {h} ELSE d[q]]

\* handleDownloadAllRequest up to the await of zipFiles, which names the archive
\* after Date.now() and opens it; without files the answer is 404
DownloadAllStart(h, hasFiles) ==
  /\ zip.alive /\ zip.call[h].pc = "idle"
  /\ IF ~hasFiles
       THEN zip' = [zip EXCEPT !.call[h] = [@ EXCEPT !.pc = "done", !.status = 404]]
       ELSE zip' = [zip EXCEPT !.call[h] = [@ EXCEPT !.pc = "zipping", !.zipPath = zip.clock],
                               !.disk = CreateWriteStream(@, zip.clock, h),
                               !.created = @ \cup {zip.clock}]

\* zipFiles rejects: the handler's catch answers 500
ZipRejects(h) ==
  /\ zip.alive /\ zip.call[h].pc = "zipping"
  /\ zip' = [zip EXCEPT !.call[h] = [@ EXCEPT !.pc = "done", !.status = 500]]

\* zipFiles resolves: the path joins tempZipFiles, the response is made and the
\* clean-up is set for five seconds later
ZipResolves(h) ==
  /\ zip.alive /\ zip.call[h].pc = "zipping"
  /\ zip' = [zip EXCEPT !.call[h] = [@ EXCEPT !.pc = "serving", !.status = 200,
                                              !.due = zip.clock + ZIP_CLEANUP_DELAY_MS],
                        !.pending = @ \cup {zip.call[h].zipPath}]

\* the callback of the setTimeout: unlink, then tempZipFiles.delete; a failed
\* unlink skips the delete
DelayedCleanup(h) ==
  /\ zip.alive /\ zip.call[h].pc = "serving" /\ zip.clock >= zip.call[h].due
  /\ LET p == zip.call[h].zipPath IN
     IF p \in DOMAIN zip.disk
       THEN zip' = [zip EXCEPT !.call[h].pc = "done",
                               !.disk = UnlinkAll(@, {p}),
                               !.pending = @ \ {p}]
       ELSE zip' = [zip EXCEPT !.call[h].pc = "done"]

\* cleanupTempZipFiles, then process.exit: SIGINT, SIGTERM and POST /stop
SignalShutdown ==
  /\ zip.alive
  /\ zip' = [zip EXCEPT !.alive = FALSE, !.disk = UnlinkAll(@, zip.pending),
                        !.pending = {}]

\* process.exit from the timeout or the shutdown of index.ts: the "exit" handler
\* unlinks every path of tempZipFiles
ProcessExit ==
  /\ zip.alive
  /\ zip' = [zip EXCEPT !.alive = FALSE, !.disk = UnlinkAll(@, zip.pending)]

ZipTick(d) ==
  /\ zip.alive /\ zip.ticks < MaxZipTicks
  /\ zip' = [zip EXCEPT !.clock = @ + d, !.ticks = @ + 1]

(***************************************************************************)
(* Listing and download on a disk that has changed since startup           *)
(* (server.ts): validFilePaths and fileMap are those of the startup disk,  *)
(* the handlers read the disk of the request.                              *)
(***************************************************************************)
\* the disks at startup: one file of the shared directory may not be there yet
StartDisks ==
  {[p \in {ShareDir, FileA, FileB, FileL, FileOutside} |->
      IF p = ShareDir THEN "dir" ELSE IF p = FileL THEN l ELSE IF p = FileB THEN b
      ELSE "file"] :
     l \in {"file", "symlink"}, b \in {"file", "absent"}}

\* the disks at the time of the request
RequestDisks ==
  {[p \in {ShareDir, FileA, FileB, FileL, FileOutside} |->
      IF p = ShareDir THEN d ELSE IF p = FileA THEN a ELSE IF p = FileB THEN b
      ELSE IF p = FileL THEN l ELSE "file"] :
     d \in {"dir", "file"}, a \in {"file", "symlink", "absent"}, b \in {"file", "absent"},
     l \in {"file", "symlink", "absent"}}

\* the names asked for: shared names, a name in another case, a share root's own
\* name, encoded paths and a malformed escape
AskedNames == DownloadNames \cup TraversalNames \cup {<<"srv">>, <<"nope">>}

DlInit ==
  dl \in {[start |-> s, fs |-> f, types |-> t, name |-> n, done |-> FALSE, op |-> "none",
           names |-> <<>>, answers |-> <<>>, resp |-> [status |-> 0, body |-> NoBody]] :
            s \in StartDisks, f \in RequestDisks, t \in {<<>>, << <<"txt">> >>},
            n \in AskedNames}

\* createServer: validateFilePaths and buildFileMap on the startup disk
StartupPaths == ValidateFilePaths(dl.start, FilePaths)

StartupMap == BuildFileMap(dl.start, StartupPaths)

\* GET /files/<name>: Router.handle decodes the parameter, then
\* handleFileDownloadRequest
DownloadByName ==
  /\ ~dl.done
  /\ LET decoded == DecodeURIComponent(dl.name) IN
     dl' = [dl EXCEPT !.done = TRUE, !.op = "download",
              !.resp = IF decoded.threw THEN [status |-> 500, body |-> NoBody]
                       ELSE HandleFileDownloadRequest(dl.fs, StartupMap, StartupPaths,
                                                      dl.types, decoded.value)]

\* GET /files, then GET /files/<name> for every name of the answer, on the same disk
ListThenDownload ==
  /\ ~dl.done
  /\ LET listing == HandleFilesListRequest(dl.fs, StartupPaths, dl.types)
         names == listing.body.names
     IN dl' = [dl EXCEPT !.done = TRUE, !.op = "list", !.resp = listing, !.names = names,
                 !.answers = [i \in 1..Len(names) |->
                                HandleFileDownloadRequest(dl.fs, StartupMap, StartupPaths,
                                                          dl.types, names[i]).status]]

(***************************************************************************)
(* The configuration (config.ts): mergeConfig over the options of the CLI, *)
(* the config file and the environment.  Four options stand for the kinds  *)
(* the function treats alike: files (a list), secure (a flag), port (a     *)
(* number) and directory (a string).  A flag is "true", "false" or         *)
(* "undefined"; an absent number is Undefined, an absent string            *)
(* "undefined", an absent list the empty one.                              *)
(***************************************************************************)
\* value || false for a flag
OrFalse(flag) == IF flag = "true" THEN "true" ELSE "false"

\* mergeConfig(cliOptions, fileConfig, envConfig)
MergeConfig(cliOptions, fileConfig, envConfig) ==
  LET \* start with env vars: the list and the flags only
      m0 == [files |-> envConfig.files, secure |-> OrFalse(envConfig.secure),
             port |-> Undefined, directory |-> "undefined"]
      \* apply the file config
      m1 == [files |-> IF fileConfig.hasFiles THEN m0.files \o fileConfig.files
                       ELSE m0.files,
             secure |-> IF fileConfig.secure # "undefined" THEN fileConfig.secure
                        ELSE m0.secure,
             port |-> IF fileConfig.port # Undefined THEN fileConfig.port ELSE m0.port,
             directory |-> IF fileConfig.directory # "undefined" THEN fileConfig.directory
                           ELSE m0.directory]
  IN \* apply the CLI options
     [files |-> IF Len(cliOptions.files) > 0 THEN cliOptions.files ELSE m1.files,
      secure |-> IF cliOptions.secure = "true" THEN "true" ELSE m1.secure,
      port |-> IF cliOptions.port # Undefined THEN cliOptions.port ELSE m1.port,
      directory |-> IF cliOptions.directory # "undefined" THEN cliOptions.directory
                    ELSE m1.directory]

\* what parseArgs hands over: the flag is a boolean, the list may be empty
CliConfigs ==
  [files : {<<>>, <<"cli.txt">>}, secure : {"true", "false"}, port : {Undefined, 8001},
   directory : {"undefined", "/cli"}]

\* what loadConfig hands over
FileConfigs ==
  [hasFiles : {TRUE}, files : {<<"file.txt">>}, secure : {"undefined", "true", "false"},
   port : {Undefined, 8002}, directory : {"undefined", "/file"}]
  \cup
  [hasFiles : {FALSE}, files : {<<>>}, secure : {"undefined", "true", "false"},
   port : {Undefined, 8002}, directory : {"undefined", "/file"}]

\* what loadEnvVars hands over
EnvConfigs ==
  [files : {<<>>, <<"env.txt">>}, secure : {"undefined", "true", "false"},
   port : {Undefined, 8003}, directory : {"undefined", "/env"}]

CfgInit ==
  cfg \in {[cli |-> c, file |-> f, env |-> e, done |-> FALSE, merged |-> <<>>] :
             c \in CliConfigs, f \in FileConfigs, e \in EnvConfigs}

\* options = mergeConfig(cliOptions, fileConfig, envConfig)
Merge ==
  /\ ~cfg.done
  /\ cfg' = [cfg EXCEPT !.done = TRUE, !.merged = MergeConfig(cfg.cli, cfg.file, cfg.env)]

(***************************************************************************)
(* Specifications                                                          *)
(***************************************************************************)
\* the variables a specification does not use stay as they are here
RLGhostIdle ==
  /\ rlLast = [op |-> "none"]
  /\ rlWindow = [k \in Keys |-> NoWindow]

SrvIdle ==
  /\ fs = EmptyMap
  /\ customPath = RootPath
  /\ allowIps = <<>>
  /\ rateLimit = Undefined
  /\ allowedTypes = <<>>
  /\ validFilePaths = <<>>
  /\ fileMap = <<>>
  /\ outputFiles = {}
  /\ running = "down"
  /\ resp = NoExchange

LimiterIdle ==
  /\ requests = EmptyMap
  /\ maxRequests = 0
  /\ windowMs = 1
  /\ now = 0

UploadIdle ==
  /\ disk = EmptyMap
  /\ uploads = [u \in {} |-> 0]

VpIdle == vp = [req |-> <<>>, base |-> <<>>, done |-> TRUE, threw |-> FALSE, value |-> Null]

RgIdle == rg = [header |-> NoHeader, fileSize |-> 0, done |-> TRUE, ranges |-> NoRanges]

IpIdle == ipc = [client |-> <<>>, entry |-> <<>>, done |-> TRUE, allowed |-> FALSE]

ZipIdle == zip = [clock |-> 0, ticks |-> 0, alive |-> FALSE, disk |-> <<>>, pending |-> {}, call |-> <<>>, created |-> {}]

DlIdle == dl = [start |-> <<>>, fs |-> <<>>, types |-> <<>>, name |-> <<>>, done |-> TRUE, op |-> "none", names |-> <<>>, answers |-> <<>>, resp |-> [status |-> 0, body |-> NoBody]]

CfgIdle == cfg = [cli |-> <<>>, file |-> <<>>, env |-> <<>>, done |-> TRUE, merged |-> <<>>]

LifeIdle ==
  life = [keepAlive |-> TRUE, timeout |-> Undefined, clock |-> 0, timeoutId |-> Undefined,
          server |-> "stopped", cause |-> "none", stoppedAt |-> Undefined, active |-> 0]

CatIdle ==
  cat = [fs |-> <<>>, roots |-> <<>>, types |-> <<>>, done |-> TRUE,
         fileMap |-> <<>>, files |-> <<>>, served |-> <<>>]

BatchIdle == batch = [files |-> <<>>, done |-> TRUE, result |-> NoUploadResult]

XferIdle ==
  /\ stats = NewStats
  /\ sizes = [p \in {FileA, FileB, FileL} |-> 1]
  /\ handlers = [h \in Calls |-> IdleCall]

\* the rate limiter alone
notLimiter == <<srvVars, uploadVars, vpVars, rgVars, xferVars,
  batchVars, catVars, lifeVars, ipVars,
    zipVars,
    dlVars,
    cfgVars>>

RateLimitNext ==
  \/ \E k \in Keys : RLCheck(k) /\ UNCHANGED notLimiter
  \/ \E k \in Keys : RLGetRemaining(k) /\ UNCHANGED notLimiter
  \/ \E k \in Keys : RLGetResetTime(k) /\ UNCHANGED notLimiter
  \/ RLCleanup /\ UNCHANGED notLimiter
  \/ Tick /\ UNCHANGED notLimiter

RateLimitInit == RLInit /\ SrvIdle /\ UploadIdle /\ VpIdle /\ RgIdle /\ XferIdle
  /\ BatchIdle /\ CatIdle /\ LifeIdle /\ IpIdle /\ ZipIdle /\ DlIdle /\ CfgIdle

SpecRateLimit == RateLimitInit /\ [][RateLimitNext]_vars

\* the HTTP server: access guard and routing
notServer == <<rlGhostVars, uploadVars, vpVars, rgVars, xferVars,
  batchVars, catVars, lifeVars, ipVars,
    zipVars,
    dlVars,
    cfgVars>>

ServerNext ==
  \/ \E req \in AccessRequests : Fetch(req) /\ UNCHANGED notServer
  \/ SrvCleanup /\ UNCHANGED notServer
  \/ SrvTick /\ UNCHANGED notServer

ServerInit == AccessInit /\ RLGhostIdle /\ UploadIdle /\ VpIdle /\ RgIdle /\ XferIdle
  /\ BatchIdle /\ CatIdle /\ LifeIdle /\ IpIdle /\ ZipIdle /\ DlIdle /\ CfgIdle

SpecServer == ServerInit /\ [][ServerNext]_vars

\* the HTTP server: the handlers on a changing filesystem
ServerFilesNext ==
  \/ \E req \in FileRequests : Fetch(req) /\ UNCHANGED notServer
  \/ StopTimer /\ UNCHANGED notServer
  \/ \E p \in MutablePaths, kind \in {"file", "symlink", "absent"} :
       FsChange(p, kind) /\ UNCHANGED notServer

ServerFilesInit == FilesInit /\ RLGhostIdle /\ UploadIdle /\ VpIdle /\ RgIdle /\ XferIdle
  /\ BatchIdle /\ CatIdle /\ LifeIdle /\ IpIdle /\ ZipIdle /\ DlIdle /\ CfgIdle

SpecFiles == ServerFilesInit /\ [][ServerFilesNext]_vars

\* uploads running side by side
notUpload == <<limiterVars, rlGhostVars, srvVars, vpVars, rgVars, xferVars,
  batchVars, catVars, lifeVars, ipVars,
    zipVars,
    dlVars,
    cfgVars>>

UploadNext ==
  \/ \E u \in Uploaders : ProbeTaken(u) /\ UNCHANGED notUpload
  \/ \E u \in Uploaders : ProbeFree(u) /\ UNCHANGED notUpload
  \/ \E u \in Uploaders : WriteAttempt(u) /\ UNCHANGED notUpload
  \/ \E u \in Uploaders : WriteFill(u) /\ UNCHANGED notUpload

UploadsInit == UploadInit /\ LimiterIdle /\ RLGhostIdle /\ SrvIdle /\ VpIdle /\ RgIdle /\ XferIdle
  /\ BatchIdle /\ CatIdle /\ LifeIdle /\ IpIdle /\ ZipIdle /\ DlIdle /\ CfgIdle

SpecUpload == UploadsInit /\ [][UploadNext]_vars

\* validatePath called on every path of the bounded set
notVp == <<limiterVars, rlGhostVars, srvVars, uploadVars, rgVars, xferVars,
  batchVars, catVars, lifeVars, ipVars,
    zipVars,
    dlVars,
    cfgVars>>

ValidatePathNext == Validate /\ UNCHANGED notVp

ValidatePathInit == VpInit /\ LimiterIdle /\ RLGhostIdle /\ SrvIdle /\ UploadIdle /\ RgIdle /\ XferIdle
  /\ BatchIdle /\ CatIdle /\ LifeIdle /\ IpIdle /\ ZipIdle /\ DlIdle /\ CfgIdle

SpecValidatePath == ValidatePathInit /\ [][ValidatePathNext]_vars

\* parseRangeHeader called on every header of the bounded set
notRg == <<limiterVars, rlGhostVars, srvVars, uploadVars, vpVars, xferVars,
  batchVars, catVars, lifeVars, ipVars,
    zipVars,
    dlVars,
    cfgVars>>

ParseRangeNext == ParseRange /\ UNCHANGED notRg

ParseRangeInit ==
  RgInit /\ LimiterIdle /\ RLGhostIdle /\ SrvIdle /\ UploadIdle /\ VpIdle /\ XferIdle
  /\ BatchIdle /\ CatIdle /\ LifeIdle /\ IpIdle /\ ZipIdle /\ DlIdle /\ CfgIdle

SpecRange == ParseRangeInit /\ [][ParseRangeNext]_vars

\* the handlers of two requests at a time, interleaved at their awaits, while a
\* shared file comes and goes
notXfer == <<rlGhostVars, uploadVars, vpVars, rgVars, batchVars, catVars, lifeVars, ipVars,
    zipVars,
    dlVars,
    cfgVars>>

TransferNext ==
  \/ \E h \in Calls, name \in {NameA, NameB, NameMissing}, range \in DownloadRanges :
       DownloadEnter(h, name, range) /\ UNCHANGED notXfer
  \/ \E h \in Calls : DownloadExists(h) /\ UNCHANGED notXfer
  \/ \E h \in Calls : DownloadServe(h) /\ UNCHANGED notXfer
  \/ \E h \in Calls, parts \in PartLists : UploadEnter(h, parts) /\ UNCHANGED notXfer
  \/ \E h \in Calls, threw \in BOOLEAN : UploadFormData(h, threw) /\ UNCHANGED notXfer
  \/ \E h \in Calls : UploadHandled(h) /\ UNCHANGED notXfer
  \/ \E h \in Calls : DownloadAllEnter(h) /\ UNCHANGED notXfer
  \/ \E h \in Calls, threw \in BOOLEAN : DownloadAllZipped(h, threw) /\ UNCHANGED notXfer
  \/ \E kind \in {"absent", "file", "dir"} : TransferFsChange(kind) /\ UNCHANGED notXfer

TransfersInit ==
  TransferInit /\ RLGhostIdle /\ UploadIdle /\ VpIdle /\ RgIdle /\ BatchIdle /\ CatIdle
  /\ LifeIdle /\ IpIdle /\ ZipIdle /\ DlIdle /\ CfgIdle

SpecTransfer == TransfersInit /\ [][TransferNext]_vars

\* handleUpload called on every list of file parts of the bounded set
notBatch ==
  <<limiterVars, rlGhostVars, srvVars, uploadVars, vpVars, rgVars, xferVars, catVars,
    lifeVars, ipVars,
    zipVars,
    dlVars,
    cfgVars>>

BatchNext == Upload /\ UNCHANGED notBatch

BatchesInit ==
  BatchInit /\ LimiterIdle /\ RLGhostIdle /\ SrvIdle /\ UploadIdle /\ VpIdle /\ RgIdle
  /\ XferIdle /\ CatIdle /\ LifeIdle /\ IpIdle /\ ZipIdle /\ DlIdle /\ CfgIdle

SpecBatch == BatchesInit /\ [][BatchNext]_vars

\* one upload whose every exclusive create may be forestalled by another process
RetrySteps ==
  \/ ProbeTaken(1) /\ UNCHANGED notUpload
  \/ ProbeFree(1) /\ UNCHANGED notUpload
  \/ WriteAttempt(1) /\ UNCHANGED notUpload
  \/ WriteFill(1) /\ UNCHANGED notUpload

RetryNext ==
  \/ RetrySteps
  \/ RivalCreate(1) /\ UNCHANGED notUpload

RetriesInit ==
  RetryInit /\ LimiterIdle /\ RLGhostIdle /\ SrvIdle /\ VpIdle /\ RgIdle /\ XferIdle
  /\ BatchIdle /\ CatIdle /\ LifeIdle /\ IpIdle /\ ZipIdle /\ DlIdle /\ CfgIdle

\* the upload goes on whenever the filesystem call it awaits has settled; the
\* other process is under no obligation
SpecRetry == RetriesInit /\ [][RetryNext]_vars /\ WF_vars(RetrySteps)

\* the server started on every list of shared paths of the bounded set
notCat ==
  <<limiterVars, rlGhostVars, srvVars, uploadVars, vpVars, rgVars, xferVars, batchVars,
    lifeVars, ipVars,
    zipVars,
    dlVars,
    cfgVars>>

CatalogNext == ServeCatalog /\ UNCHANGED notCat

CatalogInit ==
  CatInit /\ LimiterIdle /\ RLGhostIdle /\ SrvIdle /\ UploadIdle /\ VpIdle /\ RgIdle
  /\ XferIdle /\ BatchIdle /\ LifeIdle /\ IpIdle /\ ZipIdle /\ DlIdle /\ CfgIdle

SpecCatalog == CatalogInit /\ [][CatalogNext]_vars

\* the running process: time passes, transfers come and go, and the server is
\* stopped by its timer, by a signal or by POST /stop
notLife ==
  <<limiterVars, rlGhostVars, srvVars, uploadVars, vpVars, rgVars, xferVars, batchVars,
    catVars, ipVars,
    zipVars,
    dlVars,
    cfgVars>>

LifeNext ==
  \/ LifeTick /\ UNCHANGED notLife
  \/ TimeoutFires /\ UNCHANGED notLife
  \/ Shutdown /\ UNCHANGED notLife
  \/ StopRequested /\ UNCHANGED notLife
  \/ TransferBegins /\ UNCHANGED notLife
  \/ TransferEnds /\ UNCHANGED notLife

LivesInit ==
  LifeInit /\ LimiterIdle /\ RLGhostIdle /\ SrvIdle /\ UploadIdle /\ VpIdle /\ RgIdle
  /\ XferIdle /\ BatchIdle /\ CatIdle /\ IpIdle /\ ZipIdle /\ DlIdle /\ CfgIdle

\* time goes on, and the event loop runs a timer that is due
SpecLife ==
  /\ LivesInit /\ [][LifeNext]_vars
  /\ WF_vars(LifeTick /\ UNCHANGED notLife)
  /\ WF_vars(TimeoutFires /\ UNCHANGED notLife)

\* isIPAllowed called on every client and entry of the bounded set
notIp ==
  <<limiterVars, rlGhostVars, srvVars, uploadVars, vpVars, rgVars, xferVars, batchVars,
    catVars, lifeVars,
    zipVars,
    dlVars,
    cfgVars>>

AllowListNext == CheckIP /\ UNCHANGED notIp

AllowListInit ==
  IpInit /\ LimiterIdle /\ RLGhostIdle /\ SrvIdle /\ UploadIdle /\ VpIdle /\ RgIdle
  /\ XferIdle /\ BatchIdle /\ CatIdle /\ LifeIdle /\ ZipIdle /\ DlIdle /\ CfgIdle

SpecAllowList == AllowListInit /\ [][AllowListNext]_vars

\* two calls of GET /download-all, the clock, and the ends of the process
notZip ==
  <<limiterVars, rlGhostVars, srvVars, uploadVars, vpVars, rgVars, xferVars, batchVars,
    catVars, lifeVars, ipVars,
    dlVars,
    cfgVars>>

ZipNext ==
  \/ \E h \in Calls, hasFiles \in BOOLEAN : DownloadAllStart(h, hasFiles) /\ UNCHANGED notZip
  \/ \E h \in Calls : ZipRejects(h) /\ UNCHANGED notZip
  \/ \E h \in Calls : ZipResolves(h) /\ UNCHANGED notZip
  \/ \E h \in Calls : DelayedCleanup(h) /\ UNCHANGED notZip
  \/ SignalShutdown /\ UNCHANGED notZip
  \/ ProcessExit /\ UNCHANGED notZip
  \/ \E d \in ZipSteps : ZipTick(d) /\ UNCHANGED notZip

ZipsInit ==
  ZipInit /\ LimiterIdle /\ RLGhostIdle /\ SrvIdle /\ UploadIdle /\ VpIdle /\ RgIdle
  /\ XferIdle /\ BatchIdle /\ CatIdle /\ LifeIdle /\ IpIdle /\ DlIdle /\ CfgIdle

SpecZip == ZipsInit /\ [][ZipNext]_vars

\* one listing or one download on every pair of disks
notDl ==
  <<limiterVars, rlGhostVars, srvVars, uploadVars, vpVars, rgVars, xferVars, batchVars,
    catVars, lifeVars, ipVars, zipVars,
    cfgVars>>

DownloadNext ==
  \/ DownloadByName /\ UNCHANGED notDl
  \/ ListThenDownload /\ UNCHANGED notDl

DownloadsInit ==
  DlInit /\ LimiterIdle /\ RLGhostIdle /\ SrvIdle /\ UploadIdle /\ VpIdle /\ RgIdle
  /\ XferIdle /\ BatchIdle /\ CatIdle /\ LifeIdle /\ IpIdle /\ ZipIdle /\ CfgIdle

SpecDownload == DownloadsInit /\ [][DownloadNext]_vars

\* mergeConfig called on every combination of the sources
notCfg ==
  <<limiterVars, rlGhostVars, srvVars, uploadVars, vpVars, rgVars, xferVars, batchVars,
    catVars, lifeVars, ipVars, zipVars, dlVars>>

ConfigNext == Merge /\ UNCHANGED notCfg

ConfigInit ==
  CfgInit /\ LimiterIdle /\ RLGhostIdle /\ SrvIdle /\ UploadIdle /\ VpIdle /\ RgIdle
  /\ XferIdle /\ BatchIdle /\ CatIdle /\ LifeIdle /\ IpIdle /\ ZipIdle /\ DlIdle

SpecConfig == ConfigInit /\ [][ConfigNext]_vars

Spec == SpecServer

(***************************************************************************)
(* C1: inside one window exactly the first maxRequests checks of a key are *)
(* allowed and every later one is denied; the first check after the window *)
(* has elapsed is allowed and starts a new window.                         *)
(***************************************************************************)
C1_WindowAdmitsFirstMax ==
  rlLast.op = "check" =>
    LET w == rlWindow[rlLast.key] IN
    /\ rlLast.allowed <=> (w.n <= maxRequests)
    /\ (w.n = 1 => rlLast.allowed /\ requests[rlLast.key].resetTime = w.start + windowMs)
    /\ requests[rlLast.key].resetTime = w.start + windowMs

\* a denied check inside a window, and later an allowed check that opened the next one
C1_Witness ==
  /\ rlLast.op = "check"
  /\ rlLast.allowed
  /\ rlWindow[rlLast.key].n = 1
  /\ rlLast.key \in DOMAIN rlLast.before
  /\ rlLast.before[rlLast.key].count >= maxRequests
  /\ now > rlLast.before[rlLast.key].resetTime

(***************************************************************************)
(* Reading the last exchange                                               *)
(***************************************************************************)
Handled == resp.req # NoRequest

\* the client of the last request is on the allow-list, or there is none
OnAllowList == Len(allowIps) = 0 \/ IsIPAllowed(resp.req.ip, allowIps)

\* the limiter had no request left for the client when the request came in
Exhausted ==
  /\ resp.req.ip \in DOMAIN resp.before
  /\ resp.before[resp.req.ip].count >= maxRequests
  /\ resp.at <= resp.before[resp.req.ip].resetTime

\* the handlers the routes of createServer lead to
RouteHandlers ==
  {"handleRootRequest", "handleFilesListRequest", "handleFileDownloadRequest",
   "handleDownloadAllRequest", "handleUploadRequest", "handleStopRequest"}

(***************************************************************************)
(* C3: the serving handler never answers 200 or 206 for a path that is a   *)
(* symbolic link when the request is handled; it answers 403 for it,       *)
(* whether the path was in the file map from the start or became a link    *)
(* after the map was built.                                                *)
(***************************************************************************)
C3_SymlinkNeverServed ==
  (Handled /\ resp.resp.handler = "handleFileDownloadRequest") =>
    LET filename == Slice(StripPrefix(resp.req.path, customPath), 3)
        filePath == ResolveFilePath(resp.fs, fileMap, validFilePaths, filename)
    IN
    /\ (resp.resp.status \in {200, 206} => ~IsSymlink(resp.fs, resp.resp.body.path))
    /\ (filePath # <<>> /\ IsSymlink(resp.fs, filePath) => resp.resp.status = 403)

(***************************************************************************)
(* C5: with a URL prefix other than "/" configured, a request whose path   *)
(* does not begin with the prefix and that passed the access guard is      *)
(* dispatched to no route handler: it gets the not-found response.         *)
(***************************************************************************)
C5_UnprefixedNotDispatched ==
  (/\ Handled
   /\ customPath # RootPath
   /\ ~StartsWith(resp.req.path, customPath)
   /\ resp.resp.guard = "allowed") =>
    /\ resp.resp.handler \notin RouteHandlers
    /\ resp.resp.handler = "notFoundHandler"
    /\ resp.resp.status = 404

(***************************************************************************)
(* C6: the access guard looks at the allow-list before the rate limiter:   *)
(* a client that is not on the allow-list is denied with 403 and no        *)
(* rate-limit entry changes; 429 goes only to a client that is on the      *)
(* allow-list (or faces none) and whose window is used up.                 *)
(***************************************************************************)
C6_AllowListBeforeLimiter ==
  (Handled /\ resp.resp.guard # "not-run") =>
    /\ (~OnAllowList => resp.resp.status = 403 /\ resp.after = resp.before)
    /\ (resp.resp.status = 429 => OnAllowList /\ Exhausted)
    /\ (OnAllowList /\ rateLimit # Undefined /\ Exhausted => resp.resp.status = 429)

\* a client off the allow-list was denied while the limiter held a used-up window
\* of a client on it
C6_Witness ==
  /\ Handled
  /\ resp.resp.guard = "denied-ip"
  /\ resp.resp.status = 403
  /\ rateLimit # Undefined
  /\ resp.after = resp.before
  /\ \E k \in DOMAIN resp.before :
       k # resp.req.ip /\ resp.before[k].count >= maxRequests

(***************************************************************************)
(* C7: every OPTIONS request is answered 204 without the access guard      *)
(* running, whatever the client and the state of the limiter, and no       *)
(* rate-limit entry changes.                                               *)
(***************************************************************************)
C7_OptionsAlways204 ==
  (Handled /\ resp.req.method = "OPTIONS") =>
    /\ resp.resp.status = 204
    /\ resp.resp.guard = "not-run"
    /\ resp.after = resp.before

(***************************************************************************)
(* C8: apart from OPTIONS, every request passes the access guard before    *)
(* any response is produced: with an allow-list configured, a client that  *)
(* is not on it gets 403 for every non-OPTIONS request, whatever the path. *)
(***************************************************************************)
C8_GuardBeforeAnyResponse ==
  (Handled /\ resp.req.method # "OPTIONS") =>
    /\ resp.resp.guard # "not-run"
    /\ (~OnAllowList => resp.resp.status = 403)

(***************************************************************************)
(* C9: every response of the fetch handler, whatever its status, carries   *)
(* the CORS headers of createCorsHeaders.                                  *)
(***************************************************************************)
C9_EveryResponseHasCors ==
  Handled => resp.resp.cors

(***************************************************************************)
(* C10: with an allowed-types list configured, no download route delivers  *)
(* a shared file whose extension is not on the list: the listing omits it, *)
(* the single-file download answers 403 for it, and the archive of         *)
(* /download-all does not contain it.                                      *)
(***************************************************************************)
C10_DisallowedTypeNeverDelivered ==
  (Handled /\ Len(allowedTypes) > 0) =>
    /\ (resp.resp.body.kind = "json-files" =>
          \A i \in 1..Len(resp.resp.body.names) :
            IsFileTypeAllowed(resp.resp.body.names[i], allowedTypes))
    /\ (resp.resp.body.kind = "file" =>
          IsFileTypeAllowed(Basename(resp.resp.body.path), allowedTypes))
    /\ (resp.resp.handler = "handleFileDownloadRequest"
          /\ ~IsFileTypeAllowed(Slice(StripPrefix(resp.req.path, customPath), 3), allowedTypes)
          => resp.resp.status = 403)
    /\ (resp.resp.body.kind = "zip" =>
          \A e \in resp.resp.body.entries : IsFileTypeAllowed(e.name, allowedTypes))

RECURSIVE FullyDecode(_)
FullyDecode(str) ==
  LET d == DecodeURIComponent(str) IN
  IF d.threw THEN [ok |-> FALSE, value |-> <<>>]
  ELSE IF d.value = str THEN [ok |-> TRUE, value |-> str]
  ELSE FullyDecode(d.value)

\* the path is the base or lies below it, segment by segment
AtOrBelow(path, base) ==
  LET p == Split(path)
      b == Split(base)
  IN Len(b) <= Len(p) /\ SubSeq(p, 1, Len(b)) = b

\* the path names something that exists and is not a link
IsCanonical(path) == path \in DOMAIN VpFs /\ VpFs[path] # "link"

(***************************************************************************)
(* C4, as claimed: validatePath never throws, and it returns a path only   *)
(* if the request decodes to a fixed point and the canonical target of     *)
(* the decoded, normalized request exists and is the canonical base or     *)
(* lies strictly below it; every other input (traversal in any encoding,   *)
(* missing file, decoding or filesystem failure) gets null.                *)
(***************************************************************************)
C4_ValidatePathAsClaimed ==
  vp.done =>
    /\ ~vp.threw
    /\ vp.value # Null =>
         /\ FullyDecode(vp.req).ok
         /\ IsCanonical(vp.base)
         /\ IsCanonical(vp.value)
         /\ AtOrBelow(vp.value, vp.base)

(***************************************************************************)
(* C4, amended: validatePath never throws; a request whose first decoding  *)
(* pass fails, a missing target and a missing base get null; a path is     *)
(* returned only if it is the canonical target of the request decoded as   *)
(* far as it decodes (to a fixed point, or to the last string that decoded *)
(* when a later pass fails), and that target exists and is the canonical   *)
(* base or lies strictly below it.                                         *)
(***************************************************************************)
C4_ValidatePathContained ==
  vp.done =>
    /\ ~vp.threw
    /\ (DecodeURIComponent(vp.req).threw => vp.value = Null)
    /\ (~IsCanonical(vp.base) => vp.value = Null)
    /\ (FullyDecode(vp.req).ok
          /\ Realpath(Resolve(vp.base, Normalize(FullyDecode(vp.req).value))).threw
          => vp.value = Null)
    /\ vp.value # Null =>
         /\ IsCanonical(vp.value)
         /\ AtOrBelow(vp.value, vp.base)
         /\ (FullyDecode(vp.req).ok =>
               vp.value = Realpath(Resolve(vp.base, Normalize(FullyDecode(vp.req).value))).value)

\* a traversal encoded twice, whose target exists outside the base, was rejected
C4_Witness ==
  /\ vp.done
  /\ vp.value = Null
  /\ \E i \in 1..Len(vp.req) : vp.req[i] = "%252F"
  /\ \E i \in 1..Len(vp.req) : vp.req[i] = ".."
  /\ IsCanonical(vp.base)
  /\ FullyDecode(vp.req).ok
  /\ ~Realpath(Resolve(vp.base, Normalize(FullyDecode(vp.req).value))).threw
  /\ ~AtOrBelow(Realpath(Resolve(vp.base, Normalize(FullyDecode(vp.req).value))).value,
                vp.base)

(***************************************************************************)
(* The range parser                                                        *)
(***************************************************************************)
\* C12: every range returned by parseRangeHeader(header, fileSize) satisfies
\* 0 <= start <= end < fileSize, for every header and every fileSize >= 0.
C12_RangesWithinFile ==
  rg.done =>
    \A i \in 1..Len(rg.ranges) :
      /\ 0 <= rg.ranges[i].start
      /\ rg.ranges[i].start <= rg.ranges[i].end
      /\ rg.ranges[i].end < rg.fileSize

\* a specification in one of the three forms of the reference, every number in
\* plain digits
IsNumber(s) == Len(s) = 1 /\ IsNumberToken(s[1])

\* the range the stated reference gives for one specification (one or none)
ClaimedRangeOf(spec, fileSize) ==
  LET t == Trim(spec) IN
  IF Len(t) = 2 /\ IsNumberToken(t[1]) /\ t[2] = "-"
    THEN <<[start |-> NumberOf(t[1]), end |-> fileSize - 1]>>
  ELSE IF Len(t) = 2 /\ t[1] = "-" /\ IsNumberToken(t[2])
    THEN IF NumberOf(t[2]) > 0
           THEN <<[start |-> Max(0, fileSize - NumberOf(t[2])), end |-> fileSize - 1]>>
           ELSE <<>>
  ELSE IF Len(t) = 3 /\ IsNumberToken(t[1]) /\ t[2] = "-" /\ IsNumberToken(t[3])
    THEN IF NumberOf(t[3]) < NumberOf(t[1]) \/ NumberOf(t[3]) >= fileSize
           THEN <<>>
           ELSE <<[start |-> NumberOf(t[1]), end |-> NumberOf(t[3])]>>
  ELSE <<>>

\* the range of one specification when its numbers are read the way parseInt
\* reads them and the result is clamped: start to [0, fileSize-1] (0 on an empty
\* file), end to [start, fileSize-1] (start on an empty file)
ClampedRangeOf(spec, fileSize) ==
  LET t == Trim(spec)
      d == IndexOf(t, "-")
      before == ParseInt(SubSeq(t, 1, d - 1))
      after == ParseInt(SubSeq(t, d + 1, Len(t)))
      last == fileSize - 1
      Clamped(s, e) ==
        LET cs == IF s > last THEN Max(0, last) ELSE s
        IN <<[start |-> cs, end |-> IF e < cs THEN cs ELSE e]>>
  IN
  IF d = 0 THEN <<>>
  ELSE IF d = 1
    THEN IF ~after.nan /\ after.n > 0
           THEN Clamped(Max(0, fileSize - after.n), last)
           ELSE <<>>
  ELSE IF d = Len(t)
    THEN IF ~before.nan THEN Clamped(before.n, last) ELSE <<>>
  ELSE IF ~before.nan /\ ~after.nan /\ before.n <= after.n /\ after.n < fileSize
    THEN <<[start |-> before.n, end |-> after.n]>>
  ELSE <<>>

RECURSIVE RangesOf(_, _, _)
RangesOf(RangeOf(_, _), specs, fileSize) ==
  IF specs = <<>> THEN <<>>
  ELSE RangeOf(Head(specs), fileSize) \o RangesOf(RangeOf, Tail(specs), fileSize)

\* the reference: none without a 'bytes=' header or with more than MAX_RANGES
\* specifications, otherwise the ranges of the specifications in header order
Reference(RangeOf(_, _), header, fileSize) ==
  IF header = NoHeader \/ Head(header) # "bytes=" THEN NoRanges
  ELSE LET specs == SplitOn(Tail(header), ",") IN
       IF Len(specs) > MAX_RANGES THEN NoRanges
       ELSE RangesOf(RangeOf, specs, fileSize)

ServedCalls ==
  {h \in Calls : /\ handlers[h].kind = "download" /\ handlers[h].pc = "returned"
                 /\ handlers[h].reply.status \in {200, 206}}

\* the offsets first..last, in order
Offsets(first, last) == [i \in 1..(last - first + 1) |-> first + i - 1]

\* C11: a download of a file of size S without an accepted range is answered 200
\* with Content-Length S (and the whole file); with one it is answered 206 with
\* exactly the bytes start..end of the first accepted range, Content-Length
\* end-start+1 and Content-Range 'bytes start-end/S'.
C11_RangeResponse ==
  \A h \in ServedCalls :
    LET S == handlers[h].fileSize
        reply == handlers[h].reply
        ranges == ParseRangeHeader(handlers[h].range, S)
    IN IF ranges = NoRanges
         THEN /\ reply.status = 200
              /\ reply.contentLength = S
              /\ reply.body = Offsets(0, S - 1)
         ELSE /\ reply.status = 206
              /\ reply.body = Offsets(ranges[1].start, ranges[1].end)
              /\ reply.contentLength = ranges[1].end - ranges[1].start + 1
              /\ reply.contentRange =
                   [start |-> ranges[1].start, end |-> ranges[1].end, size |-> S]

InFlight == {h \in Calls : handlers[h].pc \notin {"idle", "returned"}}

\* C17: every handler call raises the active-transfer counter once on entry and
\* lowers it once on whichever way it returns, so the counter is the number of
\* handlers in flight (0 when there is none).
C17_ActiveTransfersCountsHandlers ==
  /\ stats.activeTransfers = Cardinality(InFlight)
  /\ \A h \in Calls :
       /\ handlers[h].pc = "idle" =>
            handlers[h].increments = 0 /\ handlers[h].decrements = 0
       /\ h \in InFlight =>
            handlers[h].increments = 1 /\ handlers[h].decrements = 0
       /\ handlers[h].pc = "returned" =>
            handlers[h].increments = 1 /\ handlers[h].decrements = 1

\* one handler has returned with an error while another is still running
C17_Witness ==
  /\ handlers["h1"].pc = "returned" /\ handlers["h1"].reply.status = 500
  /\ handlers["h2"].pc = "stat"
  /\ stats.activeTransfers = 1

\* the bytes of the bodies of the responses given so far
RECURSIVE BytesServed(_)
BytesServed(calls) ==
  IF calls = {} THEN 0
  ELSE LET h == CHOOSE c \in calls : TRUE IN
       (IF handlers[h].pc = "returned" /\ handlers[h].kind \in {"download", "download-all"}
          THEN Len(handlers[h].reply.body) + handlers[h].reply.otherLength
          ELSE 0)
       + BytesServed(calls \ {h})

\* C18: totalBytesDownloaded is the sum of the lengths of the bodies served: the
\* file size for a 200, end-start+1 for a 206, nothing for an error response.
C18_BytesDownloadedIsBytesServed ==
  stats.totalBytesDownloaded = BytesServed(Calls)

(***************************************************************************)
(* Upload responses                                                        *)
(***************************************************************************)
\* C14: a POST /upload whose outcome is success:false is answered with a 4xx or
\* 5xx status; status 200 is returned only when the outcome is success:true.
C14_FailedUploadIsNot200 ==
  (Handled /\ resp.resp.handler = "handleUploadRequest"
           /\ resp.resp.body.kind = "json-upload") =>
    (resp.resp.status = 200 <=> resp.resp.body.success)

\* the parts that processSingleFile, run on the part alone, writes
Writable(files) ==
  {i \in 1..Len(files) : files[i].size <= MAX_FILE_SIZE_GIB /\ files[i].fault = "none"}

RECURSIVE SumOfSizes(_)
SumOfSizes(written) ==
  IF written = <<>> THEN 0 ELSE Head(written).size + SumOfSizes(Tail(written))

\* C15: the parts of a request with several file parts are processed
\* independently; the batch is success:true iff at least one part was written; a
\* successful batch lists exactly the written files (fileCount their number,
\* totalSize the sum of their sizes) and reports the error of every failed part.
C15_BatchOutcome ==
  (batch.done /\ Len(batch.files) >= 2) =>
    LET result == batch.result
        files == batch.files
    IN
    /\ Len(result.written) = Cardinality(Writable(files))
    /\ result.success <=> Len(result.written) >= 1
    /\ result.success =>
         /\ result.filenames = [i \in 1..Len(result.written) |-> result.written[i].name]
         /\ result.fileCount = Len(result.written)
         /\ result.totalSize = SumOfSizes(result.written)
         /\ \A i \in (1..Len(files)) \ Writable(files) :
              \E k \in 1..Len(result.error) : result.error[k].file = files[i].name

(***************************************************************************)
(* The write-retry loop                                                    *)
(***************************************************************************)
RetryEnded == uploads[1].pc \in {"done", "failed"}

\* the upload never made more than MAX_UPLOAD_ATTEMPTS failing creates, and when
\* it has failed it made exactly that many, reports the explicit error and owns
\* no file
RetryBounded ==
  /\ uploads[1].attempts <= MAX_UPLOAD_ATTEMPTS
  /\ uploads[1].attempts = MAX_UPLOAD_ATTEMPTS => uploads[1].pc = "failed"
  /\ uploads[1].pc = "failed" =>
       /\ uploads[1].attempts = MAX_UPLOAD_ATTEMPTS
       /\ uploads[1].error = "Could not create unique filename after multiple attempts"
       /\ \A n \in DOMAIN disk : disk[n].owner # 1

\* C16: the write-retry loop of one upload part terminates: it makes at most
\* MAX_UPLOAD_ATTEMPTS exclusive-create attempts that fail because the file
\* exists; when all of them fail the part ends with the error 'Could not create
\* unique filename after multiple attempts' and has written no file.
C16_RetryLoopTerminates == []RetryBounded /\ <>RetryEnded

\* every one of the MAX_UPLOAD_ATTEMPTS creates was forestalled
C16_Witness ==
  /\ uploads[1].pc = "failed"
  /\ uploads[1].attempts = MAX_UPLOAD_ATTEMPTS

(***************************************************************************)
(* The catalog                                                             *)
(***************************************************************************)
\* the file of that name under a share root, or <<>> when the root has none
FileUnder(f, root, name) ==
  IF StatIsDirectory(f, root)
    THEN (IF Exists(f, Join(root, name)) /\ f[Join(root, name)] = "file"
            THEN Join(root, name) ELSE <<>>)
  ELSE IF StatIsFile(f, root) /\ Basename(root) = name THEN root
  ELSE <<>>

\* the file of that name under the first share root that has one
FirstRootFile(f, roots, name) ==
  LET holders == {i \in 1..Len(roots) : FileUnder(f, roots[i], name) # <<>>} IN
  IF holders = {} THEN <<>>
  ELSE FileUnder(f, roots[CHOOSE i \in holders : \A j \in holders : i <= j], name)

CatalogNames == {NameA, NameB, NameL}

\* C19: GET /files returns exactly the catalog entries that pass the type
\* filter, every name at most once; of two share roots holding the same name
\* only the first root's file is listed, and that is the file GET
\* /files/:filename serves for the name.
C19_ListingIsCatalog ==
  cat.done =>
    /\ \A i, j \in 1..Len(cat.files) : i # j => cat.files[i] # cat.files[j]
    /\ {cat.files[i] : i \in 1..Len(cat.files)}
         = {n \in CatalogNames :
              FirstRootFile(cat.fs, cat.roots, n) # <<>> /\ IsFileTypeAllowed(n, cat.types)}
    /\ \A i \in 1..Len(cat.files) :
         cat.served[i] = FirstRootFile(cat.fs, cat.roots, cat.files[i])

(***************************************************************************)
(* The timeout                                                             *)
(***************************************************************************)
\* the timeout in force: options.timeout, or the default of 10 minutes
ConfiguredTimeout ==
  IF life.timeout = Undefined THEN DEFAULT_TIMEOUT_MINUTES ELSE life.timeout

\* without keep-alive the server does not run past the timeout and the timer
\* stops it at the timeout, not before; with keep-alive no timer stops it
TimeoutRespected ==
  /\ ~life.keepAlive /\ life.server = "running" => life.clock <= ConfiguredTimeout
  /\ life.cause = "timeout" => ~life.keepAlive /\ life.stoppedAt = ConfiguredTimeout
  /\ life.keepAlive => life.timeoutId = Undefined

\* C20: with keep-alive off the server stops once the configured timeout
\* (default 10 minutes) has elapsed since startup, whether or not transfers are
\* in flight; with keep-alive on no timeout ever stops the server.
C20_TimeoutStopsServer ==
  /\ []TimeoutRespected
  /\ (~life.keepAlive ~> life.server = "stopped")

\* the default timeout has stopped a server with transfers in flight
C20_Witness ==
  /\ ~life.keepAlive /\ life.timeout = Undefined
  /\ life.cause = "timeout" /\ life.stoppedAt = DEFAULT_TIMEOUT_MINUTES
  /\ life.active > 0

(***************************************************************************)
(* The rate limiter's map                                                  *)
(***************************************************************************)
\* the entries whose window has not elapsed at time t
LiveKeys(reqs, t) == {k \in DOMAIN reqs : t <= reqs[k].resetTime}

\* a step of cleanup(): it removes exactly the elapsed entries
CleanupRemovesElapsed ==
  (rlLast'.op = "cleanup" /\ now' = now) =>
    requests' = [k \in LiveKeys(requests, now) |-> requests[k]]

\* what the three queries answer for every key on a map at time t
Answers(reqs, t) ==
  [k \in Keys |->
     [check |-> RateLimiterCheck(reqs, k, t, maxRequests, windowMs).allowed,
      remaining |-> GetRemaining(reqs, k, t, maxRequests),
      reset |-> GetResetTime(reqs, k, t)]]

\* the map with cleanup() run on it answers as the map itself does, now and at
\* every later time, and stays so related to it after a check of any key
CleanupUnobservable ==
  LET cleaned == Cleanup(requests, now) IN
  /\ \A t \in now..MaxTime :
       /\ Answers(cleaned, t) = Answers(requests, t)
       /\ Cleanup(cleaned, t) = Cleanup(requests, t)
  /\ \A k \in Keys :
       Cleanup(RateLimiterCheck(cleaned, k, now, maxRequests, windowMs).requests, now)
         = Cleanup(RateLimiterCheck(requests, k, now, maxRequests, windowMs).requests, now)

\* C27: cleanup() removes exactly the entries whose window has elapsed and
\* leaves the others unchanged, and running it at any point never changes the
\* result of a later check, getRemaining or getResetTime for any key.
C27_CleanupOnlyDropsElapsed == [][CleanupRemovesElapsed]_vars /\ []CleanupUnobservable

\* cleanup() has just removed an elapsed entry and kept a live one
C27_Witness ==
  /\ rlLast.op = "cleanup"
  /\ \E k \in DOMAIN rlLast.before : k \notin DOMAIN requests
  /\ \E k \in DOMAIN requests : now <= requests[k].resetTime

\* a step of check(identifier): a denied check changes nothing; an allowed one
\* in a live window adds one to the key's count and keeps its resetTime; the
\* entries of the other keys stay as they are
CheckFrame ==
  (rlWindow' # rlWindow) =>
    LET k == rlLast'.key
        live == k \in DOMAIN requests /\ now <= requests[k].resetTime
    IN
    /\ rlLast'.op = "check"
    /\ ~rlLast'.allowed => requests' = requests
    /\ (rlLast'.allowed /\ live) =>
         /\ requests'[k].count = requests[k].count + 1
         /\ requests'[k].resetTime = requests[k].resetTime
    /\ \A j \in Keys \ {k} :
         /\ j \in DOMAIN requests' <=> j \in DOMAIN requests
         /\ j \in DOMAIN requests => requests'[j] = requests[j]

\* C28: a denied check leaves the key's entry unchanged, an allowed check inside
\* a live window changes only count (by +1) and never the end of the window, and
\* a check for one key never changes the entry of another key.
C28_CheckFrame == [][CheckFrame]_vars

\* an allowed check inside a live window, made later than the window's first
\* check, while the other key has an entry too
C28_Witness ==
  /\ rlLast.op = "check" /\ rlLast.allowed
  /\ rlWindow[rlLast.key].n >= 2
  /\ now > rlWindow[rlLast.key].start
  /\ \E j \in Keys \ {rlLast.key} : j \in DOMAIN requests

(***************************************************************************)
(* C23: for an allow-list entry a.b.c.d/p with 0 <= p <= 32 and a client   *)
(* that is a dotted quad, isIPAllowed answers true exactly when the top p  *)
(* bits of the two 32-bit addresses are equal (p = 0: every client, p = 32 *)
(* the identical address only); an entry whose prefix is outside 0..32     *)
(* matches no client.                                                      *)
(***************************************************************************)
\* the octets written in a dotted quad
OctetsOf(ip) == [k \in 1..4 |-> CHOOSE n \in 0..255 : ToString(n) = ip[2 * k - 1]]

\* bit i of the address, bit 1 the highest
AddressBit(o, i) == (o[((i - 1) \div 8) + 1] \div (2 ^ (7 - ((i - 1) % 8)))) % 2

TopBitsEqual(a, b, p) == \A i \in 1..p : AddressBit(a, i) = AddressBit(b, i)

IsCidrEntry(e) == Len(e) >= 9 /\ e[8] = "/"

\* the prefix of the entry when it is a number of 0..32, else -1
PrefixOf(e) ==
  IF Len(e) = 9 /\ \E p \in 0..32 : ToString(p) = e[9]
    THEN CHOOSE p \in 0..32 : ToString(p) = e[9]
    ELSE -1

C23_CidrMatchesTopBits ==
  (ipc.done /\ IsCidrEntry(ipc.entry)) =>
    LET p == PrefixOf(ipc.entry) IN
    ipc.allowed = (p >= 0 /\ TopBitsEqual(OctetsOf(ipc.client),
                                           OctetsOf(SubSeq(ipc.entry, 1, 7)), p))

\* a client that differs from the network in bit 25 alone is let in by /24
C23_Witness ==
  /\ ipc.done /\ ipc.allowed
  /\ ipc.entry = <<"192", ".", "168", ".", "1", ".", "0", "/", "24">>
  /\ ipc.client = <<"192", ".", "168", ".", "1", ".", "128">>

\* the archives on the disk are the pending ones, and no other path is pending
ArchivesArePending == zip.alive => DOMAIN zip.disk = zip.pending

\* after the process has ended no archive is left on the disk
NoArchiveOutlivesProcess == ~zip.alive => DOMAIN zip.disk = {}

(***************************************************************************)
(* C21: every temporary archive made by GET /download-all is in            *)
(* tempZipFiles from its creation on, and is deleted from the disk by the  *)
(* delayed clean-up or by the clean-up of the shutdown; once deleted it is *)
(* no longer in tempZipFiles.                                              *)
(***************************************************************************)
C21_TempZipLifecycle == ArchivesArePending /\ NoArchiveOutlivesProcess

(***************************************************************************)
(* C29: two calls of GET /download-all that run at the same time never     *)
(* write the same archive; no archive is opened for writing twice, and the *)
(* delayed clean-up of one call never deletes the archive another call is  *)
(* serving.                                                                *)
(***************************************************************************)
C29_DistinctArchives ==
  /\ \A p \in DOMAIN zip.disk : Cardinality(zip.disk[p]) <= 1
  /\ \A h \in Calls :
       (zip.alive /\ zip.call[h].pc = "serving" /\ zip.clock < zip.call[h].due)
         => zip.call[h].zipPath \in DOMAIN zip.disk

\* the suffix of the candidate name an upload is at: 0 for the name itself
SuffixOf(up) ==
  IF up.finalPath = up.filename THEN 0
  ELSE CHOOSE k \in 1..(MAX_UPLOAD_ATTEMPTS + MaxUploaders + 2) :
         NewName(up.baseName, up.ext, k) = up.finalPath

CandidateAdvances ==
  \A u \in DOMAIN uploads :
    (u \in DOMAIN uploads' /\ uploads'[u].finalPath # uploads[u].finalPath)
      => SuffixOf(uploads'[u]) > SuffixOf(uploads[u])

(***************************************************************************)
(* C24: within one upload part the candidate names are tried in strictly   *)
(* increasing suffix order and none is tried twice: whenever the upload    *)
(* moves to another candidate, in the probe or after a failed exclusive    *)
(* create of suffix k, the new candidate has a greater suffix.             *)
(***************************************************************************)
C24_SuffixesIncrease == [][CandidateAdvances]_vars

(***************************************************************************)
(* C25: Router.handle returns a Response for every request that passed the *)
(* access guard, whatever its method and path: the response of a route     *)
(* handler, or of the not-found handler when no route matches; binding the *)
(* route parameters never makes handle throw or reject.                    *)
(***************************************************************************)
C25_HandleAlwaysResponds ==
  (Handled /\ resp.resp.guard = "allowed") =>
    /\ ~resp.resp.threw
    /\ resp.resp.handler \in RouteHandlers \cup {"notFoundHandler"}
    /\ (resp.resp.handler = "notFoundHandler"
          <=> FindRoute(resp.req.method, StripPrefix(resp.req.path, customPath)) = 0)

\* the name GET /files/:filename was asked for, decoded
RequestedName == DecodeURIComponent(dl.name).value

CatalogPaths == {StartupMap[i].path : i \in 1..Len(StartupMap)}

SharePaths == {StartupPaths[i] : i \in 1..Len(StartupPaths)}

\* the catalog entries of the name, and those of the name with case ignored
ExactEntries(name) == {i \in 1..Len(StartupMap) : StartupMap[i].name = name}

CaselessEntries(name) ==
  {i \in 1..Len(StartupMap) : ToLowerCase(StartupMap[i].name) = ToLowerCase(name)}

\* the configured share paths that are files of that base name, with case ignored
ShareFiles(f, name) ==
  {p \in SharePaths : ToLowerCase(Basename(p)) = ToLowerCase(name) /\ StatIsFile(f, p)}

Downloaded == dl.done /\ dl.op = "download" /\ ~DecodeURIComponent(dl.name).threw

C30_ListedIsDownloadable ==
  (dl.done /\ dl.op = "list") => \A i \in 1..Len(dl.answers) : dl.answers[i] = 200

\* the value of the first source that gives the option, else the default
FirstGiven(cliGiven, cliValue, fileGiven, fileValue, envGiven, envValue, default) ==
  IF cliGiven THEN cliValue
  ELSE IF fileGiven THEN fileValue
  ELSE IF envGiven THEN envValue
  ELSE default

(***************************************************************************)
(* C22: mergeConfig applies the precedence CLI > config file > environment *)
(* to every option: the merged value is the CLI value if given, else the   *)
(* config-file value if given, else the environment value if given, else   *)
(* the default.  (A flag is given on the CLI when it is passed, a list     *)
(* when it is not empty.)                                                  *)
(***************************************************************************)
C22_Precedence ==
  cfg.done =>
    /\ cfg.merged.port =
         FirstGiven(cfg.cli.port # Undefined, cfg.cli.port,
                    cfg.file.port # Undefined, cfg.file.port,
                    cfg.env.port # Undefined, cfg.env.port, Undefined)
    /\ cfg.merged.directory =
         FirstGiven(cfg.cli.directory # "undefined", cfg.cli.directory,
                    cfg.file.directory # "undefined", cfg.file.directory,
                    cfg.env.directory # "undefined", cfg.env.directory, "undefined")
    /\ cfg.merged.secure =
         FirstGiven(cfg.cli.secure = "true", "true",
                    cfg.file.secure # "undefined", cfg.file.secure,
                    cfg.env.secure # "undefined", cfg.env.secure, "false")
    /\ cfg.merged.files =
         FirstGiven(Len(cfg.cli.files) > 0, cfg.cli.files,
                    cfg.file.hasFiles, cfg.file.files,
                    Len(cfg.env.files) > 0, cfg.env.files, <<>>)

====
